---- MODULE Spec2Model ----
(***************************************************************************)
(* Cyberdyne profiles: the schema validator, the derivation engine         *)
(* (level / xp / skills / badges), the TOON codec and the ProfileManager   *)
(* that chains them in front of the state store and the blob store.        *)
(*                                                                         *)
(* JavaScript values are modelled as records of a fixed shape per field,   *)
(* tagged with their JavaScript kind:                                      *)
(*   scalar      [t, n, s]      t in undefined / null / NaN / number /     *)
(*                              string / boolean; n the number (or 0/1 of  *)
(*                              a boolean); s the characters of a string   *)
(*   collection  [t, n, items]  t = "array" carries items; any other kind  *)
(*                              is a non-array value put in that field     *)
(* A string is a sequence of one-character strings, so that trim,          *)
(* startsWith, indexOf, substring, parseInt and the contribution regex     *)
(* are computed character by character as the code computes them.          *)
(***************************************************************************)
EXTENDS Integers, Sequences, FiniteSets, TLC

VARIABLES
  pc,        \* position in the sequence of calls under study
  score,     \* input of calculateLevel / calculateXP / calculateXPToNext
  profile,   \* the profile record handed to the operation under study
  result,    \* what the last operation returned
  data,      \* StateManager.data.profiles: key -> metadata entry
  ipfs,      \* the blob store: sequence of uploaded payloads, cid = index
  last       \* ProfileManager: record of the last completed call

vars == <<pc, score, profile, result, data, ipfs, last>>

(***************************************************************************)
(* Characters and strings                                                  *)
(***************************************************************************)
Digits ==
  <<"0","1","2","3","4","5","6","7","8","9">>

IsDigit(c) ==
  \E d \in 1..10 : Digits[d] = c

DigitVal(c) ==
  (CHOOSE d \in 1..10 : Digits[d] = c) - 1

IsWs(c) ==
  c \in {" ", "\t", "\n"}

RECURSIVE TrimStart(_)
TrimStart(s) ==
  IF s # <<>> /\ IsWs(Head(s)) THEN TrimStart(Tail(s)) ELSE s

RECURSIVE TrimEnd(_)
TrimEnd(s) ==
  IF s # <<>> /\ IsWs(s[Len(s)]) THEN TrimEnd(SubSeq(s, 1, Len(s) - 1)) ELSE s

\* String.prototype.trim
Trim(s) ==
  TrimEnd(TrimStart(s))

StartsWith(s, pre) ==
  Len(s) >= Len(pre) /\ SubSeq(s, 1, Len(pre)) = pre

EndsWith(s, suf) ==
  Len(s) >= Len(suf) /\ SubSeq(s, Len(s) - Len(suf) + 1, Len(s)) = suf

\* String.prototype.indexOf for a one-character needle, 1-based; 0 is JS's -1
IndexOf(s, c) ==
  IF \E i \in 1..Len(s) : s[i] = c
  THEN CHOOSE i \in 1..Len(s) : s[i] = c /\ \A j \in 1..(i - 1) : s[j] # c
  ELSE 0

\* s.substring(k) with k 0-based
Substring(s, k) ==
  SubSeq(s, k + 1, Len(s))

RECURSIVE NatToStr(_)
NatToStr(n) ==
  IF n < 10 THEN <<Digits[n + 1]>>
  ELSE NatToStr(n \div 10) \o <<Digits[(n % 10) + 1]>>

\* Number to decimal text, as a template literal prints an integer
IntToStr(n) ==
  IF n < 0 THEN <<"-">> \o NatToStr(0 - n) ELSE NatToStr(n)

RECURSIVE DigitPrefix(_)
DigitPrefix(s) ==
  IF s # <<>> /\ IsDigit(Head(s)) THEN <<Head(s)>> \o DigitPrefix(Tail(s)) ELSE <<>>

RECURSIVE DigitsToNat(_, _)
DigitsToNat(s, acc) ==
  IF s = <<>> THEN acc ELSE DigitsToNat(Tail(s), acc * 10 + DigitVal(Head(s)))

(***************************************************************************)
(* JavaScript scalars                                                      *)
(***************************************************************************)
Undef ==
  [t |-> "undefined", n |-> 0, s |-> <<>>]

Null ==
  [t |-> "null", n |-> 0, s |-> <<>>]

NaN ==
  [t |-> "NaN", n |-> 0, s |-> <<>>]

Num(k) ==
  [t |-> "number", n |-> k, s |-> <<>>]

Str(chars) ==
  [t |-> "string", n |-> 0, s |-> chars]

Bool(b) ==
  [t |-> "boolean", n |-> IF b THEN 1 ELSE 0, s |-> <<>>]

\* ToBoolean
Truthy(v) ==
  CASE v.t = "number" -> v.n # 0
    [] v.t = "string" -> v.s # <<>>
    [] v.t = "boolean" -> v.n = 1
    [] OTHER -> FALSE

\* typeof
TypeOf(v) ==
  IF v.t = "NaN" THEN "number"
  ELSE IF v.t = "null" THEN "object"
  ELSE v.t

\* ===
StrictEq(a, b) ==
  a.t = b.t /\ a.t # "NaN" /\ a.n = b.n /\ a.s = b.s

\* a || b
OrElse(a, b) ==
  IF Truthy(a) THEN a ELSE b

\* String(v), as `${v}` prints v
ToText(v) ==
  CASE v.t = "number" -> IntToStr(v.n)
    [] v.t = "string" -> v.s
    [] v.t = "boolean" -> IF v.n = 1 THEN <<"t","r","u","e">> ELSE <<"f","a","l","s","e">>
    [] v.t = "null" -> <<"n","u","l","l">>
    [] v.t = "NaN" -> <<"N","a","N">>
    [] OTHER -> <<"u","n","d","e","f","i","n","e","d">>

\* parseInt(text): leading whitespace, an optional sign, then decimal digits
parseInt(text) ==
  LET t0 == TrimStart(text)
      neg == t0 # <<>> /\ Head(t0) = "-"
      t1 == IF t0 # <<>> /\ Head(t0) \in {"-", "+"} THEN Tail(t0) ELSE t0
      ds == DigitPrefix(t1)
  IN  IF ds = <<>> THEN NaN
      ELSE Num(IF neg THEN 0 - DigitsToNat(ds, 0) ELSE DigitsToNat(ds, 0))

\* a + b on numbers (NaN and undefined make NaN)
JsAdd(a, b) ==
  IF a.t = "number" /\ b.t = "number" THEN Num(a.n + b.n) ELSE NaN

\* a - b on numbers
JsSub(a, b) ==
  IF a.t = "number" /\ b.t = "number" THEN Num(a.n - b.n) ELSE NaN

\* a % b of JavaScript: the result takes the sign of the dividend
JsRem(a, b) ==
  IF a >= 0 THEN a % b ELSE 0 - ((0 - a) % b)

(***************************************************************************)
(* Derivation engine: level, xp, xp_to_next                                *)
(***************************************************************************)
\* Math.floor(score / 100)
calculateLevel(sc) ==
  sc \div 100

calculateXP(sc) ==
  JsRem(sc, 100)

calculateXPToNextNoWrap(sc) ==
  JsRem(100 - JsRem(sc, 100), 100)

calculateXPToNext(sc) ==
  100 - JsRem(sc, 100)

(***************************************************************************)
(* Profile records                                                         *)
(*   profile      [t, schema, version, created_at, updated_at, identity,   *)
(*                 reputation, contributions, achievements, communities,   *)
(*                 skills, badges, metadata, encryption]                   *)
(*   identity     [t, n, telegram_id, username, display_name, handle,      *)
(*                 wallet]                                                 *)
(*   reputation   [t, n, score, rank, tier, level, xp, xp_to_next,         *)
(*                 xnt_entitlement]                                        *)
(*   metadata     [t, n, ipfs_cid, previous_cid, source, auto_enhanced]    *)
(*   encryption   [t, n, algorithm, key_derivation, encrypted_at]          *)
(*   skills       [t, n, map] with map: skill name -> scalar               *)
(*   contribution [type, name, score, description, timestamp]              *)
(* In a composite, t = "object" (or "array") is the value the schema       *)
(* expects; any other t is a value of that kind stored in the field, n     *)
(* being its number (its length for a string) and the fields undefined.    *)
(***************************************************************************)
\* ToBoolean of a composite field
TruthyC(c) ==
  \/ c.t \in {"object", "array"}
  \/ c.t \in {"number", "string", "boolean"} /\ c.n # 0

\* typeof of a composite field
TypeOfC(c) ==
  IF c.t \in {"object", "array", "null"} THEN "object" ELSE c.t

\* Array.isArray
IsArray(c) ==
  c.t = "array"

SkillNames ==
  {"builder", "promoter", "ecosystem", "leadership"}

SCHEMA_ID ==
  <<"c","y","b","e","r","d","y","n","e","_","p","r","o","f","i","l","e","_","v","2">>

DaysInMonth(y, m) ==
  IF m = 2
  THEN (IF (y % 4 = 0 /\ y % 100 # 0) \/ y % 400 = 0 THEN 29 ELSE 28)
  ELSE IF m \in {4, 6, 9, 11} THEN 30 ELSE 31

\* A string that new Date(s).toISOString() gives back unchanged:
\* YYYY-MM-DDTHH:mm:ss.sssZ naming a real date and time
IsCanonicalISO(s) ==
  /\ Len(s) = 24
  /\ s[5] = "-" /\ s[8] = "-" /\ s[11] = "T" /\ s[14] = ":" /\ s[17] = ":"
  /\ s[20] = "." /\ s[24] = "Z"
  /\ \A i \in {1, 2, 3, 4, 6, 7, 9, 10, 12, 13, 15, 16, 18, 19, 21, 22, 23} : IsDigit(s[i])
  /\ LET y  == DigitsToNat(SubSeq(s, 1, 4), 0)
         mo == DigitsToNat(SubSeq(s, 6, 7), 0)
         d  == DigitsToNat(SubSeq(s, 9, 10), 0)
         h  == DigitsToNat(SubSeq(s, 12, 13), 0)
         mi == DigitsToNat(SubSeq(s, 15, 16), 0)
         se == DigitsToNat(SubSeq(s, 18, 19), 0)
     IN  /\ mo \in 1..12
         /\ d \in 1..DaysInMonth(y, mo)
         /\ h <= 23 /\ mi <= 59 /\ se <= 59

\* date instanceof Date && !isNaN(date) && date.toISOString() === dateString
isValidISO8601(v) ==
  v.t = "string" /\ IsCanonicalISO(v.s)

(***************************************************************************)
(* Schema validator                                                        *)
(***************************************************************************)
\* The messages of the checks
Err ==
  [schema |-> "Invalid schema: must be cyberdyne_profile_v2",
   version |-> "Invalid version: must be \"2\"",
   created |-> "Invalid created_at: must be ISO8601 timestamp",
   updated |-> "Invalid updated_at: must be ISO8601 timestamp",
   identity |-> "Missing identity object",
   telegram |-> "Invalid identity.telegram_id: must be number",
   username |-> "Invalid identity.username: must be string",
   reputation |-> "Missing reputation object",
   score |-> "Invalid reputation.score: must be number",
   rank |-> "Invalid reputation.rank: must be number",
   tier |-> "Invalid reputation.tier: must be string",
   contributions |-> "Invalid contributions: must be array",
   achievements |-> "Invalid achievements: must be array",
   communities |-> "Invalid communities: must be array",
   skills |-> "Invalid skills: must be object",
   badges |-> "Invalid badges: must be array"]

\* errors.push(msg) when the condition holds
PushIf(cond, msg) ==
  IF cond THEN <<msg>> ELSE <<>>

HeaderChecks(p) ==
  PushIf(~StrictEq(p.schema, Str(SCHEMA_ID)), Err.schema)
  \o PushIf(~Truthy(p.version) \/ ~StrictEq(p.version, Str(<<"2">>)), Err.version)
  \o PushIf(~Truthy(p.created_at) \/ ~isValidISO8601(p.created_at), Err.created)
  \o PushIf(~Truthy(p.updated_at) \/ ~isValidISO8601(p.updated_at), Err.updated)

IdentityChecks(p) ==
  IF ~TruthyC(p.identity) THEN <<Err.identity>>
  ELSE PushIf(~Truthy(p.identity.telegram_id)
                \/ TypeOf(p.identity.telegram_id) # "number", Err.telegram)
       \o PushIf(~Truthy(p.identity.username)
                   \/ TypeOf(p.identity.username) # "string", Err.username)

ReputationChecks(p) ==
  IF ~TruthyC(p.reputation) THEN <<Err.reputation>>
  ELSE PushIf(TypeOf(p.reputation.score) # "number", Err.score)
       \o PushIf(TypeOf(p.reputation.rank) # "number", Err.rank)
       \o PushIf(~Truthy(p.reputation.tier)
                   \/ TypeOf(p.reputation.tier) # "string", Err.tier)

\* The code's order with the badges check moved in front of the skills check
CollectionChecksBadgesFirst(p) ==
  PushIf(TruthyC(p.contributions) /\ ~IsArray(p.contributions), Err.contributions)
  \o PushIf(TruthyC(p.achievements) /\ ~IsArray(p.achievements), Err.achievements)
  \o PushIf(TruthyC(p.communities) /\ ~IsArray(p.communities), Err.communities)
  \o PushIf(TruthyC(p.badges) /\ ~IsArray(p.badges), Err.badges)
  \o PushIf(TruthyC(p.skills) /\ TypeOfC(p.skills) # "object", Err.skills)

CollectionChecks(p) ==
  PushIf(TruthyC(p.contributions) /\ ~IsArray(p.contributions), Err.contributions)
  \o PushIf(TruthyC(p.achievements) /\ ~IsArray(p.achievements), Err.achievements)
  \o PushIf(TruthyC(p.communities) /\ ~IsArray(p.communities), Err.communities)
  \o PushIf(TruthyC(p.skills) /\ TypeOfC(p.skills) # "object", Err.skills)
  \o PushIf(TruthyC(p.badges) /\ ~IsArray(p.badges), Err.badges)

\* A validator that returns at its first violation
validateProfileFirstOnly(p) ==
  LET errors == HeaderChecks(p) \o IdentityChecks(p) \o ReputationChecks(p)
                  \o CollectionChecks(p)
      first == IF errors = <<>> THEN <<>> ELSE <<Head(errors)>>
  IN  [threw |-> p.t \in {"undefined", "null"}, valid |-> first = <<>>, errors |-> first]

\* validateProfile(profile): reading a property of null or undefined throws a
\* TypeError at the first check; otherwise every check runs and the errors
\* are returned in the order of the checks
validateProfile(p) ==
  IF p.t \in {"undefined", "null"}
  THEN [threw |-> TRUE, valid |-> FALSE, errors |-> <<>>]
  ELSE LET errors == HeaderChecks(p) \o IdentityChecks(p) \o ReputationChecks(p)
                       \o CollectionChecks(p)
       IN  [threw |-> FALSE, valid |-> errors = <<>>, errors |-> errors]

(***************************************************************************)
(* Values used to build the inputs                                         *)
(***************************************************************************)
\* "2024-01-15T10:30:00.000Z"
TS_created ==
  <<"2","0","2","4","-","0","1","-","1","5","T","1","0",":","3","0",":","0","0",".","0","0","0","Z">>

\* "2024-02-29T23:59:59.000Z"
TS_updated ==
  <<"2","0","2","4","-","0","2","-","2","9","T","2","3",":","5","9",":","5","9",".","0","0","0","Z">>

\* "2024-01-15": a date that toISOString() does not give back
TS_short ==
  <<"2","0","2","4","-","0","1","-","1","5">>

\* A field holding a non-object value of kind k
NotObject(k, num) ==
  [t |-> k, n |-> num]

MkIdentity(tg, un, dn, h, w) ==
  [t |-> "object", n |-> 0, telegram_id |-> tg, username |-> un,
   display_name |-> dn, handle |-> h, wallet |-> w]

NoIdentity(k, num) ==
  [t |-> k, n |-> num, telegram_id |-> Undef, username |-> Undef,
   display_name |-> Undef, handle |-> Undef, wallet |-> Undef]

MkReputation(sc, rk, tr, lv, x, xn, xnt) ==
  [t |-> "object", n |-> 0, score |-> sc, rank |-> rk, tier |-> tr, level |-> lv,
   xp |-> x, xp_to_next |-> xn, xnt_entitlement |-> xnt]

NoReputation(k, num) ==
  [t |-> k, n |-> num, score |-> Undef, rank |-> Undef, tier |-> Undef, level |-> Undef,
   xp |-> Undef, xp_to_next |-> Undef, xnt_entitlement |-> Undef]

MkMetadata(cid, prev, src, enh) ==
  [t |-> "object", n |-> 0, ipfs_cid |-> cid, previous_cid |-> prev, source |-> src,
   auto_enhanced |-> enh]

NoMetadata(k, num) ==
  [t |-> k, n |-> num, ipfs_cid |-> Undef, previous_cid |-> Undef, source |-> Undef,
   auto_enhanced |-> Undef]

MkEncryption(algo, kd, at) ==
  [t |-> "object", n |-> 0, algorithm |-> algo, key_derivation |-> kd, encrypted_at |-> at]

NoEncryption(k, num) ==
  [t |-> k, n |-> num, algorithm |-> Undef, key_derivation |-> Undef, encrypted_at |-> Undef]

\* An array field
Arr(items) ==
  [t |-> "array", n |-> 0, items |-> items]

\* A list field holding a value of kind k that is no array
NotArr(k, num) ==
  [t |-> k, n |-> num, items |-> <<>>]

NoSkillsMap ==
  [k \in SkillNames |-> Undef]

\* A skills object
SkillsObj(m) ==
  [t |-> "object", n |-> 0, map |-> m]

\* A skills field holding a value of kind k that is no plain object
NotSkills(k, num) ==
  [t |-> k, n |-> num, map |-> NoSkillsMap]

MkContribution(ty, nm, sc, ds, ts) ==
  [type |-> ty, name |-> nm, score |-> sc, description |-> ds, timestamp |-> ts]

MkProfile(sch, ver, cr, up, idn, rep, con, ach, com, sk, bd, md, enc) ==
  [t |-> "object", schema |-> sch, version |-> ver, created_at |-> cr, updated_at |-> up,
   identity |-> idn, reputation |-> rep, contributions |-> con, achievements |-> ach,
   communities |-> com, skills |-> sk, badges |-> bd, metadata |-> md, encryption |-> enc]

\* null or undefined passed where a profile is expected
NoProfile(k) ==
  [t |-> k, schema |-> Undef, version |-> Undef, created_at |-> Undef, updated_at |-> Undef,
   identity |-> NoIdentity("undefined", 0), reputation |-> NoReputation("undefined", 0),
   contributions |-> NotArr("undefined", 0), achievements |-> NotArr("undefined", 0),
   communities |-> NotArr("undefined", 0), skills |-> NotSkills("undefined", 0),
   badges |-> NotArr("undefined", 0), metadata |-> NoMetadata("undefined", 0),
   encryption |-> NoEncryption("undefined", 0)]

(***************************************************************************)
(* Derivation engine: badges, skills, enhanceProfile                       *)
(***************************************************************************)
\* ToNumber, for the arithmetic and the comparisons on score and rank
ToNumber(v) ==
  CASE v.t = "number" -> v
    [] v.t = "boolean" -> Num(v.n)
    [] v.t = "null" -> Num(0)
    [] v.t = "string" ->
         LET body == Trim(v.s)
             unsigned == IF body # <<>> /\ Head(body) \in {"-", "+"} THEN Tail(body) ELSE body
         IN  IF body = <<>> THEN Num(0)
             ELSE IF unsigned # <<>> /\ DigitPrefix(unsigned) = unsigned THEN parseInt(body)
             ELSE NaN
    [] OTHER -> NaN

\* a > k in place of a >= k
JsGeStrict(a, k) ==
  ToNumber(a).t = "number" /\ ToNumber(a).n > k

\* a >= k and a <= k: false when a is not a number
JsGe(a, k) ==
  ToNumber(a).t = "number" /\ ToNumber(a).n >= k

JsLe(a, k) ==
  ToNumber(a).t = "number" /\ ToNumber(a).n <= k

\* The badge texts; the leading emoji is kept as one element
Badge ==
  [elite |-> <<"U+1F3C6"," ","E","l","i","t","e">>,
   advanced |-> <<"U+2B50"," ","A","d","v","a","n","c","e","d">>,
   rising |-> <<"U+1F31F"," ","R","i","s","i","n","g"," ","S","t","a","r">>,
   top10 |-> <<"U+1F947"," ","T","o","p"," ","1","0">>,
   top50 |-> <<"U+1F948"," ","T","o","p"," ","5","0">>,
   builder |-> <<"U+1F680"," ","B","u","i","l","d","e","r">>,
   moderator |-> <<"U+1F4AC"," ","M","o","d","e","r","a","t","o","r">>,
   leader |-> <<"U+1F310"," ","C","o","m","m","u","n","i","t","y"," ","L","e","a","d","e","r">>]

\* The contribution types the engine knows
CType ==
  [builder |-> <<"b","u","i","l","d","e","r">>,
   infrastructure |-> <<"i","n","f","r","a","s","t","r","u","c","t","u","r","e">>,
   open_source |-> <<"o","p","e","n","_","s","o","u","r","c","e">>,
   promoter |-> <<"p","r","o","m","o","t","e","r">>,
   advocacy |-> <<"a","d","v","o","c","a","c","y">>,
   education |-> <<"e","d","u","c","a","t","i","o","n">>,
   community_modding |-> <<"c","o","m","m","u","n","i","t","y","_","m","o","d","d","i","n","g">>,
   community_ownership |-> <<"c","o","m","m","u","n","i","t","y","_","o","w","n","e","r","s","h","i","p">>,
   validators |-> <<"v","a","l","i","d","a","t","o","r","s">>,
   staking_program |-> <<"s","t","a","k","i","n","g","_","p","r","o","g","r","a","m">>]

\* contributions.filter(c => c.type === ty).length > 0
HasType(items, types) ==
  \E i \in 1..Len(items) : \E ty \in types : StrictEq(items[i].type, Str(ty))

\* Badges with the rank badge put before the score badge
autoAssignBadgesRankFirst(p) ==
  LET sc == p.reputation.score
      rk == p.reputation.rank
  IN  (IF JsLe(rk, 10) THEN <<Badge.top10>>
       ELSE IF JsLe(rk, 50) THEN <<Badge.top50>>
       ELSE <<>>)
      \o (IF JsGe(sc, 800) THEN <<Badge.elite>>
          ELSE IF JsGe(sc, 500) THEN <<Badge.advanced>>
          ELSE IF JsGe(sc, 100) THEN <<Badge.rising>>
          ELSE <<>>)
      \o (IF HasType(p.contributions.items, {CType.builder}) THEN <<Badge.builder>> ELSE <<>>)

\* autoAssignBadges(profile), for a profile whose contributions is an array
autoAssignBadges(p) ==
  LET sc == p.reputation.score
      rk == p.reputation.rank
  IN  (IF JsGe(sc, 800) THEN <<Badge.elite>>
       ELSE IF JsGe(sc, 500) THEN <<Badge.advanced>>
       ELSE IF JsGe(sc, 100) THEN <<Badge.rising>>
       ELSE <<>>)
      \o (IF JsLe(rk, 10) THEN <<Badge.top10>>
          ELSE IF JsLe(rk, 50) THEN <<Badge.top50>>
          ELSE <<>>)
      \o (IF HasType(p.contributions.items, {CType.builder}) THEN <<Badge.builder>> ELSE <<>>)
      \o (IF HasType(p.contributions.items, {CType.community_modding, CType.promoter})
          THEN <<Badge.moderator>> ELSE <<>>)
      \o (IF TruthyC(p.communities) /\ p.communities.t = "array"
              /\ Len(p.communities.items) >= 5
          THEN <<Badge.leader>> ELSE <<>>)

\* The switch of calculateSkills: the skill a contribution type adds to
SkillBucket(type) ==
  IF type.t # "string" THEN "none"
  ELSE IF type.s \in {CType.builder, CType.infrastructure, CType.open_source} THEN "builder"
  ELSE IF type.s \in {CType.promoter, CType.advocacy, CType.education} THEN "promoter"
  ELSE IF type.s \in {CType.community_modding, CType.community_ownership} THEN "leadership"
  ELSE IF type.s \in {CType.validators, CType.staking_program} THEN "ecosystem"
  ELSE "none"

\* The for loop of calculateSkills over contributions[i..], skills so far in acc
\* (contribution scores are numbers or falsy: contrib.score || 0)
RECURSIVE SkillsLoop(_, _, _)
SkillsLoop(items, i, acc) ==
  IF i > Len(items) THEN acc
  ELSE LET b == SkillBucket(items[i].type)
           add == IF Truthy(items[i].score) THEN items[i].score ELSE Num(0)
       IN  SkillsLoop(items, i + 1,
                      IF b = "none" THEN acc ELSE [acc EXCEPT ![b] = JsAdd(acc[b], add)])

calculateSkills(items) ==
  SkillsLoop(items, 1, [k \in SkillNames |-> Num(0)])

\* Math.floor(score / 100), score % 100 and 100 - (score % 100) on a JavaScript value
LevelOf(sc) ==
  IF ToNumber(sc).t = "number" THEN Num(calculateLevel(ToNumber(sc).n)) ELSE NaN

XPOf(sc) ==
  IF ToNumber(sc).t = "number" THEN Num(calculateXP(ToNumber(sc).n)) ELSE NaN

XPToNextOf(sc) ==
  IF ToNumber(sc).t = "number" THEN Num(calculateXPToNext(ToNumber(sc).n)) ELSE NaN

\* level, xp and xp_to_next recomputed whatever they hold
FillDerivedAlways(rep) ==
  [rep EXCEPT !.level = LevelOf(rep.score), !.xp = XPOf(rep.score),
              !.xp_to_next = XPToNextOf(rep.score)]

\* enhanceProfile: level, xp and xp_to_next are set only where falsy
FillDerived(rep) ==
  [rep EXCEPT !.level = IF ~Truthy(rep.level) THEN LevelOf(rep.score) ELSE rep.level,
              !.xp = IF ~Truthy(rep.xp) THEN XPOf(rep.score) ELSE rep.xp,
              !.xp_to_next = IF ~Truthy(rep.xp_to_next) THEN XPToNextOf(rep.score)
                             ELSE rep.xp_to_next]

\* The length a non-array value of a list field shows: that of a string,
\* none (undefined) otherwise
HasItems(c) ==
  \/ c.t = "array" /\ Len(c.items) > 0
  \/ c.t = "string" /\ c.n > 0

\* Skills recomputed by adding the contributions to the skills already there
RefreshSkillsAdditive(p) ==
  IF TruthyC(p.contributions) /\ HasItems(p.contributions)
  THEN SkillsObj([k \in SkillNames |->
                    JsAdd(calculateSkills(p.contributions.items)[k],
                          IF p.skills.t = "object" /\ p.skills.map[k].t = "number"
                          THEN p.skills.map[k] ELSE Num(0))])
  ELSE p.skills

\* enhanceProfile: skills are replaced only when there is a contribution
RefreshSkills(p) ==
  IF TruthyC(p.contributions) /\ HasItems(p.contributions)
  THEN SkillsObj(calculateSkills(p.contributions.items))
  ELSE p.skills

\* An enhance that marks the record in metadata.source instead of
\* metadata.auto_enhanced
enhanceProfileMarkingSource(p) ==
  IF p.t # "object" \/ p.reputation.t # "object" THEN [threw |-> TRUE, profile |-> p]
  ELSE LET p1 == [p EXCEPT !.reputation = FillDerived(p.reputation)]
           p2 == [p1 EXCEPT !.skills = RefreshSkills(p1)]
       IN  IF p2.contributions.t # "array" THEN [threw |-> TRUE, profile |-> p2]
           ELSE LET p3 == [p2 EXCEPT !.badges = Arr(autoAssignBadges(p2))]
                IN  IF p3.metadata.t # "object" THEN [threw |-> TRUE, profile |-> p3]
                    ELSE [threw |-> FALSE,
                          profile |-> [p3 EXCEPT !.metadata.source =
                                                   Str(<<"e","n","h","a","n","c","e","d">>)]]

\* enhanceProfile(profile): the record is changed in place, so a TypeError
\* leaves the changes made before it. It is thrown by
\*   profile.reputation.level   when reputation is no object,
\*   profile.contributions.filter  when contributions is no array,
\*   profile.metadata.auto_enhanced = true  when metadata is no object.
enhanceProfile(p) ==
  IF p.t # "object" \/ p.reputation.t # "object" THEN [threw |-> TRUE, profile |-> p]
  ELSE LET p1 == [p EXCEPT !.reputation = FillDerived(p.reputation)]
           p2 == [p1 EXCEPT !.skills = RefreshSkills(p1)]
       IN  IF p2.contributions.t # "array" THEN [threw |-> TRUE, profile |-> p2]
           ELSE LET p3 == [p2 EXCEPT !.badges = Arr(autoAssignBadges(p2))]
                IN  IF p3.metadata.t # "object" THEN [threw |-> TRUE, profile |-> p3]
                    ELSE [threw |-> FALSE,
                          profile |-> [p3 EXCEPT !.metadata.auto_enhanced = Bool(TRUE)]]

(***************************************************************************)
(* TOON codec: profileToTOON                                               *)
(***************************************************************************)
\* The keys of the key: value lines
Key ==
  [version |-> <<"v","e","r","s","i","o","n">>,
   created |-> <<"c","r","e","a","t","e","d">>,
   updated |-> <<"u","p","d","a","t","e","d">>,
   telegram |-> <<"t","e","l","e","g","r","a","m">>,
   username |-> <<"u","s","e","r","n","a","m","e">>,
   display |-> <<"d","i","s","p","l","a","y">>,
   handle |-> <<"h","a","n","d","l","e">>,
   wallet |-> <<"w","a","l","l","e","t">>,
   score |-> <<"s","c","o","r","e">>,
   rank |-> <<"r","a","n","k">>,
   tier |-> <<"t","i","e","r">>,
   level |-> <<"l","e","v","e","l">>,
   xp |-> <<"x","p">>,
   xnt |-> <<"x","n","t">>,
   cid |-> <<"c","i","d">>,
   prev |-> <<"p","r","e","v">>,
   source |-> <<"s","o","u","r","c","e">>,
   enhanced |-> <<"e","n","h","a","n","c","e","d">>,
   algo |-> <<"a","l","g","o">>,
   key |-> <<"k","e","y">>,
   encrypted |-> <<"e","n","c","r","y","p","t","e","d">>]

\* The section headers as written, "# Identity" .. "# Encryption"
Header ==
  [identity |-> <<"#"," ","I","d","e","n","t","i","t","y">>,
   reputation |-> <<"#"," ","R","e","p","u","t","a","t","i","o","n">>,
   contributions |-> <<"#"," ","C","o","n","t","r","i","b","u","t","i","o","n","s">>,
   achievements |-> <<"#"," ","A","c","h","i","e","v","e","m","e","n","t","s">>,
   communities |-> <<"#"," ","C","o","m","m","u","n","i","t","i","e","s">>,
   skills |-> <<"#"," ","S","k","i","l","l","s">>,
   badges |-> <<"#"," ","B","a","d","g","e","s">>,
   metadata |-> <<"#"," ","M","e","t","a","d","a","t","a">>,
   encryption |-> <<"#"," ","E","n","c","r","y","p","t","i","o","n">>]

\* The section names as profileFromTOON compares them
Section ==
  [identity |-> <<"i","d","e","n","t","i","t","y">>,
   reputation |-> <<"r","e","p","u","t","a","t","i","o","n">>,
   contributions |-> <<"c","o","n","t","r","i","b","u","t","i","o","n","s">>,
   achievements |-> <<"a","c","h","i","e","v","e","m","e","n","t","s">>,
   communities |-> <<"c","o","m","m","u","n","i","t","i","e","s">>,
   skills |-> <<"s","k","i","l","l","s">>,
   badges |-> <<"b","a","d","g","e","s">>,
   metadata |-> <<"m","e","t","a","d","a","t","a">>,
   encryption |-> <<"e","n","c","r","y","p","t","i","o","n">>]

\* The order in which Object.entries lists the skills calculateSkills creates
SkillOrder ==
  <<"builder", "promoter", "ecosystem", "leadership">>

SkillText ==
  [builder |-> CType.builder, promoter |-> CType.promoter,
   ecosystem |-> <<"e","c","o","s","y","s","t","e","m">>,
   leadership |-> <<"l","e","a","d","e","r","s","h","i","p">>]

\* `${key}: ${value}`
KV(key, v) ==
  key \o <<":", " ">> \o ToText(v)

\* `- ${text}`
Item(text) ==
  <<"-", " ">> \o text

\* lines.push(line) when the condition holds
LineIf(cond, line) ==
  IF cond THEN <<line>> ELSE <<>>

\* The lines of one contribution
ContributionLines(c) ==
  <<(<<"[">> \o ToText(c.type) \o <<"]">>),
    (<<"-", " ">> \o ToText(c.name) \o <<" ", "(">> \o ToText(c.score)
       \o <<" ", "p", "t", "s", ")">>)>>
  \o LineIf(Truthy(c.description), <<" ", " ">> \o ToText(c.description))
  \o LineIf(Truthy(c.timestamp), <<" ", " ">> \o ToText(c.timestamp))

RECURSIVE AllContributionLines(_)
AllContributionLines(items) ==
  IF items = <<>> THEN <<>>
  ELSE ContributionLines(Head(items)) \o AllContributionLines(Tail(items))

\* A list section: nothing when the list is absent or empty
ListSection(c, header) ==
  IF TruthyC(c) /\ HasItems(c)
  THEN <<header>> \o [i \in 1..Len(c.items) |-> Item(c.items[i])] \o <<<<>>>>
  ELSE <<>>

\* score > 0
JsGt0(v) ==
  ToNumber(v).t = "number" /\ ToNumber(v).n > 0

RECURSIVE SkillLines(_, _)
SkillLines(map, i) ==
  IF i > Len(SkillOrder) THEN <<>>
  ELSE LineIf(map[SkillOrder[i]].t # "undefined" /\ JsGt0(map[SkillOrder[i]]),
              KV(SkillText[SkillOrder[i]], map[SkillOrder[i]]))
       \o SkillLines(map, i + 1)

\* Object.keys(profile.skills).length > 0
HasSkillKeys(sk) ==
  sk.t = "object" /\ \E k \in SkillNames : sk.map[k].t # "undefined"

\* The lines profileToTOON pushes, for a profile whose identity, reputation
\* and metadata can be read
ToonLines(p) ==
  <<(<<"@">> \o ToText(p.schema)), <<>>,
    KV(Key.version, p.version), KV(Key.created, p.created_at),
    KV(Key.updated, p.updated_at), <<>>,
    Header.identity,
    KV(Key.telegram, p.identity.telegram_id), KV(Key.username, p.identity.username)>>
  \o LineIf(Truthy(p.identity.display_name), KV(Key.display, p.identity.display_name))
  \o LineIf(Truthy(p.identity.handle), KV(Key.handle, p.identity.handle))
  \o LineIf(Truthy(p.identity.wallet), KV(Key.wallet, p.identity.wallet))
  \o <<<<>>, Header.reputation,
       KV(Key.score, p.reputation.score), KV(Key.rank, p.reputation.rank),
       KV(Key.tier, p.reputation.tier), KV(Key.level, p.reputation.level),
       (Key.xp \o <<":", " ">> \o ToText(p.reputation.xp) \o <<"/">>
          \o ToText(JsAdd(p.reputation.xp_to_next, p.reputation.xp)))>>
  \o LineIf(Truthy(p.reputation.xnt_entitlement), KV(Key.xnt, p.reputation.xnt_entitlement))
  \o <<<<>>>>
  \o (IF TruthyC(p.contributions) /\ HasItems(p.contributions)
      THEN <<Header.contributions>> \o AllContributionLines(p.contributions.items) \o <<<<>>>>
      ELSE <<>>)
  \o ListSection(p.achievements, Header.achievements)
  \o ListSection(p.communities, Header.communities)
  \o (IF TruthyC(p.skills) /\ HasSkillKeys(p.skills)
      THEN <<Header.skills>> \o SkillLines(p.skills.map, 1) \o <<<<>>>>
      ELSE <<>>)
  \o ListSection(p.badges, Header.badges)
  \o <<Header.metadata>>
  \o LineIf(Truthy(p.metadata.ipfs_cid), KV(Key.cid, p.metadata.ipfs_cid))
  \o LineIf(Truthy(p.metadata.previous_cid), KV(Key.prev, p.metadata.previous_cid))
  \o <<KV(Key.source, OrElse(p.metadata.source, Str(<<"u","n","k","n","o","w","n">>)))>>
  \o LineIf(Truthy(p.metadata.auto_enhanced), KV(Key.enhanced, Bool(TRUE)))
  \o <<<<>>>>
  \o (IF TruthyC(p.encryption)
      THEN <<Header.encryption, KV(Key.algo, p.encryption.algorithm),
             KV(Key.key, p.encryption.key_derivation),
             KV(Key.encrypted, p.encryption.encrypted_at)>>
      ELSE <<>>)

\* lines.join('\n')
RECURSIVE Join(_)
Join(lines) ==
  IF lines = <<>> THEN <<>>
  ELSE IF Len(lines) = 1 THEN lines[1]
  ELSE lines[1] \o <<"\n">> \o Join(Tail(lines))

\* profileToTOON(profile): reading a field of an identity, reputation or
\* metadata that is null or undefined throws a TypeError
profileToTOON(p) ==
  IF \/ p.identity.t \in {"undefined", "null"}
     \/ p.reputation.t \in {"undefined", "null"}
     \/ p.metadata.t \in {"undefined", "null"}
  THEN [threw |-> TRUE, text |-> <<>>]
  ELSE [threw |-> FALSE, text |-> Join(ToonLines(p))]

(***************************************************************************)
(* TOON codec: profileFromTOON                                             *)
(***************************************************************************)
\* text.split(c) for a one-character separator: the pieces between the
\* separators, in order
RECURSIVE Split(_, _)
Split(text, c) ==
  LET k == IndexOf(text, c)
  IN  IF k = 0 THEN <<text>>
      ELSE <<SubSeq(text, 1, k - 1)>> \o Split(SubSeq(text, k + 1, Len(text)), c)

\* String.prototype.toLowerCase
ToLowerCase(s) ==
  LET upper == <<"A","B","C","D","E","F","G","H","I","J","K","L","M","N","O","P","Q","R","S","T","U","V","W","X","Y","Z">>
      lower == <<"a","b","c","d","e","f","g","h","i","j","k","l","m","n","o","p","q","r","s","t","u","v","w","x","y","z">>
  IN  [i \in 1..Len(s) |->
         IF \E k \in 1..26 : upper[k] = s[i]
         THEN lower[CHOOSE k \in 1..26 : upper[k] = s[i]]
         ELSE s[i]]

\* s.substring(a, b) with a, b 0-based: the arguments are swapped when a > b
Substring2(s, a, b) ==
  IF a <= b THEN SubSeq(s, a + 1, b) ELSE SubSeq(s, b + 1, a)

\* r matches \s*\((\d+)\s*pts\)$ ; the digits when it does
TailDigits(r) ==
  LET r1 == TrimStart(r)
      ds == IF r1 # <<>> /\ Head(r1) = "(" THEN DigitPrefix(Tail(r1)) ELSE <<>>
      r2 == IF ds = <<>> THEN <<>> ELSE TrimStart(SubSeq(r1, Len(ds) + 2, Len(r1)))
  IN  IF ds # <<>> /\ r2 = <<"p","t","s",")">> THEN ds ELSE <<>>

\* content.match(/^(.+?)\s*\((\d+)\s*pts\)$/): the shortest non-empty name
\* that the score part follows
MatchItem(content) ==
  LET ok == {i \in 1..Len(content) : TailDigits(SubSeq(content, i + 1, Len(content))) # <<>>}
  IN  IF ok = {} THEN [matched |-> FALSE, name |-> <<>>, digits |-> <<>>]
      ELSE LET i == CHOOSE k \in ok : \A j \in ok : k <= j
           IN  [matched |-> TRUE, name |-> SubSeq(content, 1, i),
                digits |-> TailDigits(SubSeq(content, i + 1, Len(content)))]

\* content.match(/^\d{4}-\d{2}-\d{2}/)
LooksLikeDate(c) ==
  /\ Len(c) >= 10
  /\ \A i \in {1, 2, 3, 4, 6, 7, 9, 10} : IsDigit(c[i])
  /\ c[5] = "-" /\ c[8] = "-"

\* The record profileFromTOON starts from
EmptyDecoded ==
  [t |-> "object", schema |-> Null, version |-> Null, created_at |-> Null,
   updated_at |-> Null, identity |-> NoIdentity("object", 0),
   reputation |-> NoReputation("object", 0), contributions |-> Arr(<<>>),
   achievements |-> Arr(<<>>), communities |-> Arr(<<>>), skills |-> SkillsObj(NoSkillsMap),
   badges |-> Arr(<<>>), metadata |-> NoMetadata("object", 0),
   encryption |-> NoEncryption("object", 0)]

\* No contribution is open
NoContribution ==
  [open |-> FALSE, c |-> MkContribution(Undef, Undef, Undef, Undef, Undef)]

\* The state of the pass before the first line
DecodeStart ==
  [profile |-> EmptyDecoded, currentSection |-> Null, currentContribution |-> NoContribution]

\* A key: value line in section sec (the xp value is split on '/')
KeyValue(st, key, value) ==
  LET sec == st.currentSection
      p == st.profile
      parts == Split(value, "/")
      current == parseInt(parts[1])
      total == IF Len(parts) >= 2 THEN parseInt(parts[2]) ELSE Undef
  IN  IF ~Truthy(sec) THEN
        (IF key = Key.version THEN [p EXCEPT !.version = Str(value)]
         ELSE IF key = Key.created THEN [p EXCEPT !.created_at = Str(value)]
         ELSE IF key = Key.updated THEN [p EXCEPT !.updated_at = Str(value)]
         ELSE p)
      ELSE IF sec.s = Section.identity THEN
        (IF key = Key.telegram THEN [p EXCEPT !.identity.telegram_id = parseInt(value)]
         ELSE IF key = Key.username THEN [p EXCEPT !.identity.username = Str(value)]
         ELSE IF key = Key.display THEN [p EXCEPT !.identity.display_name = Str(value)]
         ELSE IF key = Key.handle THEN [p EXCEPT !.identity.handle = Str(value)]
         ELSE IF key = Key.wallet THEN [p EXCEPT !.identity.wallet = Str(value)]
         ELSE p)
      ELSE IF sec.s = Section.reputation THEN
        (IF key = Key.score THEN [p EXCEPT !.reputation.score = parseInt(value)]
         ELSE IF key = Key.rank THEN [p EXCEPT !.reputation.rank = parseInt(value)]
         ELSE IF key = Key.tier THEN [p EXCEPT !.reputation.tier = Str(value)]
         ELSE IF key = Key.level THEN [p EXCEPT !.reputation.level = parseInt(value)]
         ELSE IF key = Key.xp
           THEN [p EXCEPT !.reputation.xp = current,
                          !.reputation.xp_to_next = JsSub(total, current)]
         ELSE IF key = Key.xnt THEN [p EXCEPT !.reputation.xnt_entitlement = parseInt(value)]
         ELSE p)
      ELSE IF sec.s = Section.skills THEN
        (IF \E k \in SkillNames : SkillText[k] = key
         THEN [p EXCEPT !.skills.map[CHOOSE k \in SkillNames : SkillText[k] = key] =
                          parseInt(value)]
         ELSE p)
      ELSE IF sec.s = Section.metadata THEN
        (IF key = Key.cid THEN [p EXCEPT !.metadata.ipfs_cid = Str(value)]
         ELSE IF key = Key.prev THEN [p EXCEPT !.metadata.previous_cid = Str(value)]
         ELSE IF key = Key.source THEN [p EXCEPT !.metadata.source = Str(value)]
         ELSE IF key = Key.enhanced
           THEN [p EXCEPT !.metadata.auto_enhanced = Bool(value = <<"t","r","u","e">>)]
         ELSE p)
      ELSE IF sec.s = Section.encryption THEN
        (IF key = Key.algo THEN [p EXCEPT !.encryption.algorithm = Str(value)]
         ELSE IF key = Key.key THEN [p EXCEPT !.encryption.key_derivation = Str(value)]
         ELSE IF key = Key.encrypted THEN [p EXCEPT !.encryption.encrypted_at = Str(value)]
         ELSE p)
      ELSE p

\* The sections whose key: value branch ends with continue
KeyValueSections ==
  {Section.identity, Section.reputation, Section.skills, Section.metadata,
   Section.encryption}

\* A "- content" line that leaves the contribution open after appending it
ListItemKeepOpen(st, content) ==
  LET m == MatchItem(content)
  IN  IF st.currentContribution.open /\ m.matched
      THEN [st EXCEPT !.profile.contributions.items =
                        Append(st.profile.contributions.items,
                               [st.currentContribution.c EXCEPT
                                  !.name = Str(m.name), !.score = parseInt(m.digits)])]
      ELSE st

\* A "- content" line
ListItem(st, content) ==
  LET sec == st.currentSection
      p == st.profile
      m == MatchItem(content)
  IN  IF Truthy(sec) /\ sec.s = Section.achievements
      THEN [st EXCEPT !.profile.achievements.items = Append(p.achievements.items, content)]
      ELSE IF Truthy(sec) /\ sec.s = Section.communities
      THEN [st EXCEPT !.profile.communities.items = Append(p.communities.items, content)]
      ELSE IF Truthy(sec) /\ sec.s = Section.badges
      THEN [st EXCEPT !.profile.badges.items = Append(p.badges.items, content)]
      ELSE IF st.currentContribution.open /\ m.matched
      THEN [st EXCEPT !.profile.contributions.items =
                        Append(p.contributions.items,
                               [st.currentContribution.c EXCEPT
                                  !.name = Str(m.name), !.score = parseInt(m.digits)]),
                      !.currentContribution = NoContribution]
      ELSE st

\* An indented line while a contribution is open
DetailLine(st, line) ==
  LET content == Trim(line)
  IN  IF LooksLikeDate(content)
      THEN [st EXCEPT !.currentContribution.c.timestamp = Str(content)]
      ELSE [st EXCEPT !.currentContribution.c.description = Str(content)]

\* A pass that takes a line no branch has taken for a detail line
UnmatchedAsDetail(st, line) ==
  IF st.currentContribution.open THEN DetailLine(st, line) ELSE st

\* The end of the loop body is reached with a line that no branch has taken:
\* nothing is done
Unmatched(st, line) ==
  st

\* One turn of the for loop of profileFromTOON on lines[i]
DecodeLine(st, raw) ==
  LET line == Trim(raw)
      colon == IndexOf(line, ":")
      key == Trim(SubSeq(line, 1, colon - 1))
      value == Trim(Substring(line, colon))
  IN  IF line = <<>> THEN st
      ELSE IF StartsWith(line, <<"@">>)
      THEN [st EXCEPT !.profile.schema = Str(Substring(line, 1))]
      ELSE IF StartsWith(line, <<"#", " ">>)
      THEN [st EXCEPT !.currentSection = Str(ToLowerCase(Substring(line, 2))),
                      !.currentContribution = NoContribution]
      ELSE IF StartsWith(line, <<"[">>) /\ EndsWith(line, <<"]">>)
      THEN [st EXCEPT !.currentContribution =
                        [open |-> TRUE,
                         c |-> MkContribution(Str(Substring2(line, 1, Len(line) - 1)),
                                              Null, Num(0), Null, Null)]]
      ELSE IF colon # 0 /\ (~Truthy(st.currentSection)
                              \/ st.currentSection.s \in KeyValueSections)
      THEN [st EXCEPT !.profile = KeyValue(st, key, value)]
      ELSE IF StartsWith(line, <<"-", " ">>)
      THEN ListItem(st, Substring(line, 2))
      ELSE IF StartsWith(line, <<" ", " ">>) /\ st.currentContribution.open
      THEN DetailLine(st, line)
      ELSE Unmatched(st, line)

\* The for loop of profileFromTOON from lines[i] on; each turn works on the
\* state the turn before left
RECURSIVE DecodeLines(_, _, _)
DecodeLines(lines, i, st) ==
  IF i > Len(lines) THEN st
  ELSE LET next == DecodeLine(st, lines[i])
       IN  IF DOMAIN next = DOMAIN st THEN DecodeLines(lines, i + 1, next)
           ELSE st

\* profileFromTOON(toon)
profileFromTOON(text) ==
  DecodeLines(Split(text, "\n"), 1, DecodeStart).profile

(***************************************************************************)
(* State store, blob store and crypto box behind the ProfileManager         *)
(***************************************************************************)
\* config.walletPubkey of the manager
WalletPubkey ==
  <<"W","1">>

\* The key of a state entry: `${wallet}:${telegramId}`, or String(telegramId)
\* when no wallet is given
StateKey(telegramId, wallet) ==
  IF Truthy(wallet) THEN ToText(wallet) \o <<":">> \o ToText(telegramId)
  ELSE ToText(telegramId)

\* null, as getProfile returns it for a key without entry
NoEntry ==
  [present |-> FALSE, cid |-> Undef, username |-> Undef, score |-> Undef, rank |-> Undef,
   tier |-> Undef, version |-> Undef, created_at |-> Undef, updated_at |-> Undef,
   format |-> Undef]

\* StateManager.getProfile
getProfile(store, telegramId, wallet) ==
  IF StateKey(telegramId, wallet) \in DOMAIN store
  THEN store[StateKey(telegramId, wallet)]
  ELSE NoEntry

\* StateManager.setProfile: the entry replaces the one under the key, stamped
\* with the time of the call
setProfile(store, telegramId, metadata, wallet, now) ==
  [k \in DOMAIN store \cup {StateKey(telegramId, wallet)} |->
     IF k = StateKey(telegramId, wallet) THEN [metadata EXCEPT !.updated_at = Str(now)]
     ELSE store[k]]

\* The address the store returns for the n-th blob it received: every payload
\* is sealed under a fresh random iv, so no two uploads have the same content
CidOf(n) ==
  <<"Q","m">> \o NatToStr(n)

\* StorageAdapter.upload with the store answering
upload(blobs, payload) ==
  [blobs |-> Append(blobs, payload), cid |-> CidOf(Len(blobs) + 1)]

\* CryptoBox.encrypt: the payload of createEncryptedPayload; data stands for
\* the plaintext sealed under the key derived from the wallet secret
encrypt(plaintext) ==
  [version |-> 1, wallet |-> WalletPubkey, data |-> plaintext]

\* CryptoBox.decrypt: a payload of another version is refused
decrypt(payload) ==
  IF payload.version # 1 THEN [threw |-> TRUE, text |-> <<>>]
  ELSE [threw |-> FALSE, text |-> payload.data]

\* StorageAdapter.download: an address the store does not know fails
download(blobs, cid) ==
  IF \E i \in 1..Len(blobs) : CidOf(i) = cid
  THEN [threw |-> FALSE, payload |-> blobs[CHOOSE i \in 1..Len(blobs) : CidOf(i) = cid]]
  ELSE [threw |-> TRUE, payload |-> encrypt(<<>>)]

(***************************************************************************)
(* ProfileManager: create, get, update (format 'toon')                     *)
(***************************************************************************)
\* A chain step that carries the version of the entry over unchanged
NextVersionUnchanged(existing) ==
  Str(ToText(parseInt(ToText(OrElse(existing.version, Str(<<"2">>))))))

\* String(parseInt(existing.version || '2') + 1)
NextVersion(existing) ==
  Str(ToText(JsAdd(parseInt(ToText(OrElse(existing.version, Str(<<"2">>)))), Num(1))))

\* The catch branch of create: success false, nothing stored. steps is the
\* order in which the call ran enhanceProfile, validateProfile and
\* profileToTOON on the record.
CreateFailed(store, blobs) ==
  [success |-> FALSE, threw |-> FALSE, cid |-> <<>>, store |-> store, blobs |-> blobs,
   existing |-> NoEntry, key |-> <<>>, steps |-> <<>>]

\* The entry create hands to setProfile
EntryOf(cid, p) ==
  [present |-> TRUE, cid |-> Str(cid), username |-> p.identity.username,
   score |-> p.reputation.score, rank |-> p.reputation.rank, tier |-> p.reputation.tier,
   version |-> p.version, created_at |-> p.created_at, updated_at |-> p.updated_at,
   format |-> Str(<<"t","o","o","n">>)]

\* The chain step of create: a profile whose identity has an entry with a CID
\* names that CID as its previous one and takes the next version
ChainTo(p, existing) ==
  IF existing.present /\ Truthy(existing.cid)
  THEN [p EXCEPT !.metadata.previous_cid = existing.cid, !.version = NextVersion(existing)]
  ELSE p

\* What can fail outside the program during a call: the key derivation of
\* encrypt, the store (upload gives up after its retries), the write of the
\* state file in save
Faults ==
  {"none", "encrypt", "upload", "save"}

\* create from the encoding on: encode, encrypt, upload, record the entry.
\* The address is written into the returned record after the encoding.
\* setProfile assigns the entry and then calls save: when the write fails the
\* entry is assigned and the error reaches the catch branch of create.
CreateStored(store, blobs, p, existing, now, fault) ==
  LET wallet == OrElse(p.identity.wallet, Str(WalletPubkey))
      plaintext == profileToTOON(p)
      up == upload(blobs, encrypt(plaintext.text))
  IN  IF plaintext.threw \/ fault \in {"encrypt", "upload"}
      THEN [CreateFailed(store, blobs) EXCEPT !.steps = <<"enhance", "validate", "encode">>]
      ELSE IF fault = "save"
      THEN [CreateFailed(setProfile(store, p.identity.telegram_id, EntryOf(up.cid, p),
                                    wallet, now),
                         up.blobs) EXCEPT !.steps = <<"enhance", "validate", "encode">>]
      ELSE [success |-> TRUE, threw |-> FALSE, cid |-> up.cid,
            steps |-> <<"enhance", "validate", "encode">>,
            store |-> setProfile(store, p.identity.telegram_id, EntryOf(up.cid, p),
                                 wallet, now),
            blobs |-> up.blobs, existing |-> existing,
            key |-> StateKey(p.identity.telegram_id, wallet)]

\* create after enhanceProfile has returned e: validate, look up the entry
CreateValidated(store, blobs, e, now, fault) ==
  IF e.threw THEN [CreateFailed(store, blobs) EXCEPT !.steps = <<"enhance">>]
  ELSE IF ~validateProfile(e.profile).valid
  THEN [CreateFailed(store, blobs) EXCEPT !.steps = <<"enhance", "validate">>]
  ELSE CreateStored(store, blobs,
                    ChainTo(e.profile,
                            getProfile(store, e.profile.identity.telegram_id,
                                       OrElse(e.profile.identity.wallet, Str(WalletPubkey)))),
                    getProfile(store, e.profile.identity.telegram_id,
                               OrElse(e.profile.identity.wallet, Str(WalletPubkey))),
                    now, fault)

\* ProfileManager.create(profileData) at time now: enhance, validate, chain to
\* the existing entry, encode, encrypt, upload, record the entry
create(store, blobs, profileData, now, fault) ==
  CreateValidated(store, blobs, enhanceProfile(profileData), now, fault)

\* ProfileManager.get(telegramId, wallet): null without entry, the decoded
\* blob otherwise; a failing download, decrypt or parse is thrown
get(store, blobs, telegramId, wallet) ==
  LET metadata == getProfile(store, telegramId, OrElse(wallet, Str(WalletPubkey)))
      text == download(blobs, ToText(metadata.cid))
      plaintext == decrypt(text.payload)
  IN  IF ~metadata.present \/ ~Truthy(metadata.cid)
      THEN [threw |-> FALSE, found |-> FALSE, profile |-> EmptyDecoded]
      ELSE IF text.threw \/ plaintext.threw
                \/ ~StartsWith(plaintext.text, <<"@","c","y","b","e","r","d","y","n","e">>)
      THEN [threw |-> TRUE, found |-> FALSE, profile |-> EmptyDecoded]
      ELSE [threw |-> FALSE, found |-> TRUE, profile |-> profileFromTOON(plaintext.text)]

\* ProfileManager.verify(cid): download, decrypt, parse and validate; every
\* failure is caught and returned as valid false
verify(blobs, cid) ==
  LET text == download(blobs, cid)
      plaintext == decrypt(text.payload)
  IN  IF text.threw \/ plaintext.threw
            \/ ~StartsWith(plaintext.text, <<"@","c","y","b","e","r","d","y","n","e">>)
      THEN [threw |-> FALSE, valid |-> FALSE, profile |-> NoProfile("null")]
      ELSE IF validateProfile(profileFromTOON(plaintext.text)).valid
      THEN [threw |-> FALSE, valid |-> TRUE, profile |-> profileFromTOON(plaintext.text)]
      ELSE [threw |-> FALSE, valid |-> FALSE, profile |-> NoProfile("null")]

\* A deleteProfile that empties the state store
deleteProfileAll(store, telegramId, wallet) ==
  [k \in {} |-> NoEntry]

\* StateManager.deleteProfile: the entry under the key is removed
deleteProfile(store, telegramId, wallet) ==
  [k \in DOMAIN store \ {StateKey(telegramId, wallet)} |-> store[k]]

\* ProfileManager.delete(telegramId, wallet): the entry is removed from the
\* state and success is returned; a failing write of the state file is thrown
\* by save after the entry has been removed
delete(store, blobs, telegramId, wallet, fault) ==
  [success |-> fault # "save", threw |-> fault = "save", cid |-> <<>>,
   store |-> deleteProfile(store, telegramId, OrElse(wallet, Str(WalletPubkey))),
   blobs |-> blobs,
   existing |-> getProfile(store, telegramId, OrElse(wallet, Str(WalletPubkey))),
   key |-> StateKey(telegramId, OrElse(wallet, Str(WalletPubkey))), steps |-> <<>>]

\* No field given in an updates object
NoUpdates ==
  [reputation |-> NoReputation("undefined", 0), contributions |-> NotArr("undefined", 0),
   addContribution |-> FALSE, achievements |-> NotArr("undefined", 0),
   addAchievement |-> FALSE, communities |-> NotArr("undefined", 0)]

\* { ...base, ...over } on reputation objects: the keys over has win
Spread(base, over) ==
  LET pick(f) == IF over[f].t # "undefined" THEN over[f] ELSE base[f]
  IN  [base EXCEPT !.score = pick("score"), !.rank = pick("rank"), !.tier = pick("tier"),
                   !.level = pick("level"), !.xp = pick("xp"),
                   !.xp_to_next = pick("xp_to_next"),
                   !.xnt_entitlement = pick("xnt_entitlement")]

\* updated.contributions.push(updates.contributions): one element is added,
\* the object given, or the array given (an element without type, name, score)
PushContribution(items, given) ==
  IF given.t = "object" THEN Append(items, given.items[1])
  ELSE Append(items, MkContribution(Undef, Undef, Undef, Undef, Undef))

\* The merge of update: { ...existing, updated_at } and the fields given
MergeUpdates(existing, updates, now) ==
  LET u0 == [existing EXCEPT !.updated_at = Str(now)]
      u1 == IF TruthyC(updates.reputation)
            THEN [u0 EXCEPT !.reputation = Spread(u0.reputation, updates.reputation)]
            ELSE u0
      u2 == IF TruthyC(updates.contributions)
            THEN (IF updates.addContribution
                  THEN [u1 EXCEPT !.contributions.items =
                                    PushContribution(u1.contributions.items,
                                                     updates.contributions)]
                  ELSE [u1 EXCEPT !.contributions = updates.contributions])
            ELSE u1
      u3 == IF TruthyC(updates.achievements)
            THEN (IF updates.addAchievement
                  THEN [u2 EXCEPT !.achievements.items =
                                    u2.achievements.items \o updates.achievements.items]
                  ELSE [u2 EXCEPT !.achievements = updates.achievements])
            ELSE u2
  IN  IF TruthyC(updates.communities) THEN [u3 EXCEPT !.communities = updates.communities]
      ELSE u3

\* update after the enhance of the merged record has returned enhanced
UpdateEnhanced(store, blobs, enhanced, before, now, fault) ==
  IF enhanced.threw
  THEN [CreateFailed(store, blobs) EXCEPT !.threw = TRUE, !.existing = before,
                                          !.steps = <<"enhance">>]
  ELSE [create(store, blobs, enhanced.profile, now, fault)
          EXCEPT !.existing = before, !.steps = <<"enhance">> \o @]

\* update after get has returned existing; before is the state entry get read
UpdateExisting(store, blobs, existing, before, updates, now, fault) ==
  IF existing.threw \/ ~existing.found
  THEN [CreateFailed(store, blobs) EXCEPT !.threw = TRUE, !.existing = before]
  ELSE UpdateEnhanced(store, blobs,
                      enhanceProfile(MergeUpdates(existing.profile, updates, now)),
                      before, now, fault)

\* ProfileManager.update(telegramId, updates, wallet) at time now: get, merge,
\* enhance, create. A profile that is not found, and a failure of get or of
\* the enhance before create, are thrown.
update(store, blobs, telegramId, updates, wallet, now, fault) ==
  UpdateExisting(store, blobs, get(store, blobs, telegramId, wallet),
                 getProfile(store, telegramId, OrElse(wallet, Str(WalletPubkey))),
                 updates, now, fault)

\* Values of the variables a specification does not use
NoResult ==
  [threw |-> FALSE]

NoCall ==
  [op |-> "none"]

(***************************************************************************)
(* SpecDerive: calculateLevel, calculateXP, calculateXPToNext on a score   *)
(***************************************************************************)
MaxDeriveScore == 160

InitDerive ==
  /\ pc = "input"
  /\ score \in (0 - MaxDeriveScore)..MaxDeriveScore
  /\ profile = NoProfile("undefined")
  /\ result = NoResult
  /\ data = <<>>
  /\ ipfs = <<>>
  /\ last = NoCall

Calculate ==
  /\ pc = "input"
  /\ pc' = "derived"
  /\ result' = [threw |-> FALSE, level |-> calculateLevel(score), xp |-> calculateXP(score),
                xp_to_next |-> calculateXPToNext(score)]
  /\ UNCHANGED <<score, profile, data, ipfs, last>>

NextDerive ==
  Calculate

SpecDerive ==
  InitDerive /\ [][NextDerive]_vars

\* C6: for every integer score >= 0, level is the integer quotient of score by
\* 100 and xp the remainder (100 * level + xp = score with 0 <= xp < 100), and
\* xp + xp_to_next = 100.
C6_DerivationDeterminism ==
  (pc = "derived" /\ score >= 0) =>
    /\ 100 * result.level + result.xp = score
    /\ result.xp \in 0..99
    /\ result.xp + result.xp_to_next = 100

\* A score on a level boundary has been derived: xp 0, xp_to_next 100
C6_Witness ==
  pc = "derived" /\ score = 100 /\ result.level = 1 /\ result.xp = 0
    /\ result.xp_to_next = 100

(***************************************************************************)
(* SpecValidate: validateProfile on every combination of violated checks   *)
(***************************************************************************)
ValidIdentity ==
  MkIdentity(Num(7), Str(<<"a","l">>), Undef, Undef, Undef)

ValidReputation ==
  MkReputation(Num(120), Num(8), Str(<<"A">>), Undef, Undef, Undef, Undef)

\* One accepted and one rejected value for each check
VSchema == {Str(SCHEMA_ID), Str(<<"v","1">>)}
VVersion == {Str(<<"2">>), Num(2)}
VCreated == {Str(TS_created), Str(TS_short)}
VUpdated == {Str(TS_updated), Undef}
VIdentity ==
  {NoIdentity("undefined", 0)}
    \cup {MkIdentity(tg, un, Undef, Undef, Undef) :
            tg \in {Num(7), Str(<<"7">>)}, un \in {Str(<<"a","l">>), Undef}}
VReputation ==
  {NoReputation("null", 0)}
    \cup {MkReputation(sc, rk, tr, Undef, Undef, Undef, Undef) :
            sc \in {Num(120), Str(<<"1","2","0">>)}, rk \in {Num(8), Undef},
            tr \in {Str(<<"A">>), Str(<<>>)}}
VContributions == {Arr(<<>>), NotArr("number", 5)}
VAchievements == {Arr(<<>>), NotArr("object", 0)}
VCommunities == {Arr(<<>>), NotArr("string", 1)}
VSkills == {SkillsObj(NoSkillsMap), NotSkills("number", 3)}
VBadges == {Arr(<<>>), NotArr("object", 0)}

\* The kinds of value an optional field can hold besides the expected one
OtherKinds ==
  {<<"undefined", 0>>, <<"null", 0>>, <<"number", 0>>, <<"number", 5>>, <<"string", 0>>,
   <<"string", 1>>, <<"boolean", 0>>, <<"boolean", 1>>, <<"object", 0>>}

ValidRaw ==
  MkProfile(Str(SCHEMA_ID), Str(<<"2">>), Str(TS_created), Str(TS_updated), ValidIdentity,
            ValidReputation, Arr(<<>>), Arr(<<>>), Arr(<<>>), SkillsObj(NoSkillsMap),
            Arr(<<>>), MkMetadata(Undef, Undef, Undef, Undef), NoEncryption("undefined", 0))

ValidatorInputs ==
  {MkProfile(sch, ver, cr, up, idn, rep, con, ach, com, sk, bd,
             MkMetadata(Undef, Undef, Undef, Undef), NoEncryption("undefined", 0)) :
     sch \in VSchema, ver \in VVersion, cr \in VCreated, up \in VUpdated,
     idn \in VIdentity, rep \in VReputation, con \in VContributions,
     ach \in VAchievements, com \in VCommunities, sk \in VSkills, bd \in VBadges}
    \cup {[ValidRaw EXCEPT !.contributions = NotArr(k[1], k[2])] : k \in OtherKinds}
    \cup {[ValidRaw EXCEPT !.achievements = NotArr(k[1], k[2])] : k \in OtherKinds}
    \cup {[ValidRaw EXCEPT !.communities = NotArr(k[1], k[2])] : k \in OtherKinds}
    \cup {[ValidRaw EXCEPT !.badges = NotArr(k[1], k[2])] : k \in OtherKinds}
    \cup {[ValidRaw EXCEPT !.skills = NotSkills(k[1], k[2])] :
            k \in (OtherKinds \ {<<"object", 0>>}) \cup {<<"array", 0>>}}
    \cup {[ValidRaw EXCEPT !.identity = NoIdentity(k[1], k[2])] : k \in OtherKinds}
    \cup {[ValidRaw EXCEPT !.reputation = NoReputation(k[1], k[2])] : k \in OtherKinds}
    \cup {NoProfile("null"), NoProfile("undefined")}

InitValidate ==
  /\ pc = "input"
  /\ profile \in ValidatorInputs
  /\ result = NoResult
  /\ score = 0
  /\ data = <<>>
  /\ ipfs = <<>>
  /\ last = NoCall

Validate ==
  /\ pc = "input"
  /\ pc' = "validated"
  /\ result' = validateProfile(profile)
  /\ UNCHANGED <<score, profile, data, ipfs, last>>

NextValidate ==
  Validate

SpecValidate ==
  InitValidate /\ [][NextValidate]_vars

\* The elements of a sequence
Range(seq) ==
  {seq[i] : i \in 1..Len(seq)}

\* C7: validateProfile never throws: for every input, a null or undefined
\* profile included, it returns {valid, errors} with valid = true exactly when
\* errors is empty.
C7_NeverThrows ==
  pc = "validated" =>
    /\ ~result.threw
    /\ result.valid <=> (result.errors = <<>>)

\* The fields the checks of the validator read, one group of checks each
CheckedFields ==
  {"schema", "version", "created_at", "updated_at", "identity", "reputation",
   "contributions", "achievements", "communities", "skills", "badges"}

\* The valid profile with field f alone taken from p
Isolate(f, p) ==
  [ValidRaw EXCEPT ![f] = p[f]]

\* C8: no short-circuiting. Every error that a field's checks report when that
\* field is the only one wrong is still reported when any other checks are
\* violated too, and a profile without identity and without reputation gets
\* the two distinct messages about them.
C8_NoShortCircuit ==
  (pc = "validated" /\ profile.t = "object") =>
    /\ \A f \in CheckedFields :
         Range(validateProfile(Isolate(f, profile)).errors) \subseteq Range(result.errors)
    /\ (~TruthyC(profile.identity) /\ ~TruthyC(profile.reputation)) =>
         /\ {Err.identity, Err.reputation} \subseteq Range(result.errors)
         /\ Cardinality(Range(result.errors)) >= 2

\* A profile with a wrong schema id, no identity, no reputation and a
\* non-array badges field has been validated and all four are reported
C8_Witness ==
  /\ pc = "validated"
  /\ ~StrictEq(profile.schema, Str(SCHEMA_ID))
  /\ ~TruthyC(profile.identity)
  /\ ~TruthyC(profile.reputation)
  /\ profile.badges.t = "object"
  /\ {Err.schema, Err.identity, Err.reputation, Err.badges} \subseteq Range(result.errors)

\* Position of a message in an order of the checks
Pos(msg, order) ==
  CHOOSE i \in 1..Len(order) : order[i] = msg

\* errors follows the given order of the checks
InOrder(errors, order) ==
  \A i, j \in 1..Len(errors) : i < j => Pos(errors[i], order) < Pos(errors[j], order)

\* The checks as the specification lists them: badges with the other lists,
\* skills last
ListedOrder ==
  <<Err.schema, Err.version, Err.created, Err.updated, Err.identity, Err.telegram, Err.username,
    Err.reputation, Err.score, Err.rank, Err.tier, Err.contributions, Err.achievements,
    Err.communities, Err.badges, Err.skills>>

\* The same with skills before badges
SourceOrder ==
  <<Err.schema, Err.version, Err.created, Err.updated, Err.identity, Err.telegram, Err.username,
    Err.reputation, Err.score, Err.rank, Err.tier, Err.contributions, Err.achievements,
    Err.communities, Err.skills, Err.badges>>

\* C9 as stated: the errors are ordered schema id, version, created_at,
\* updated_at, identity, reputation, contributions, achievements, communities,
\* badges and last skills, for every combination of violations.
C9_ListedOrder ==
  (pc = "validated" /\ ~result.threw) => InOrder(result.errors, ListedOrder)

\* C9 amended: the errors are ordered schema id, version, created_at,
\* updated_at, identity (telegram_id, username), reputation (score, rank,
\* tier), contributions, achievements, communities, skills and last badges,
\* for every combination of violations.
C9_SourceOrder ==
  (pc = "validated" /\ ~result.threw) => InOrder(result.errors, SourceOrder)

\* A profile violating the skills and the badges check, with earlier
\* violations, has been validated
C9_Witness ==
  /\ pc = "validated"
  /\ {Err.version, Err.username, Err.tier, Err.communities, Err.skills, Err.badges}
       \subseteq Range(result.errors)

\* The optional fields that have to be sequences
ListFields ==
  {"contributions", "achievements", "communities", "badges"}

\* C17: validateProfile reports an error for each of contributions,
\* achievements, communities and badges that is present but no sequence (any
\* scalar or mapping, whatever its value), and for skills when it is present
\* but no mapping (a sequence included); absent fields produce no error.
C17_CollectionShapes ==
  (pc = "validated" /\ ~result.threw) =>
    /\ \A f \in ListFields :
         (Err[f] \in Range(result.errors))
           <=> (profile[f].t \notin {"undefined", "null", "array"})
    /\ (Err.skills \in Range(result.errors))
         <=> (profile.skills.t \notin {"undefined", "null", "object"})

(***************************************************************************)
(* SpecEnhance: enhanceProfile applied once and then again to its result   *)
(***************************************************************************)
MaxContribs == 2

\* {type, name, score} records: a builder, a promoter, an unmapped type, and
\* a validators contribution without score
SomeContributions ==
  {MkContribution(Str(CType.builder), Str(<<"B","u","y"," ","B","o","t">>), Num(150), Undef, Undef),
   MkContribution(Str(CType.promoter), Str(<<"P","R">>), Num(30), Undef, Undef),
   MkContribution(Str(<<"d","e","s","i","g","n">>), Str(<<"L","o","g","o">>), Num(40), Undef, Undef),
   MkContribution(Str(CType.validators), Str(<<"N","o","d","e">>), Undef, Undef, Undef)}

ContributionLists ==
  UNION {[1..n -> SomeContributions] : n \in 0..MaxContribs}

SomeScores ==
  {0, 99, 100, 417, 499, 500, 799, 800}

SomeRanks ==
  {8, 30, 70}

\* level, xp, xp_to_next as the caller supplies them: none, zeros, values
\* that do not belong to the score, or a null, a value and a zero
SuppliedDerived ==
  {<<Undef, Undef, Undef>>, <<Num(0), Num(0), Undef>>, <<Num(7), Num(33), Num(67)>>,
   <<Null, Num(33), Num(0)>>}

\* skills before the call: {} or an object with values
SuppliedSkills ==
  {SkillsObj(NoSkillsMap),
   SkillsObj([k \in SkillNames |-> IF k = "builder" THEN Num(50) ELSE Num(0)])}

SuppliedCommunities ==
  {Arr(<<<<"A">>, <<"B">>>>), Arr(<<<<"A">>, <<"B">>, <<"C">>, <<"D">>, <<"E">>>>)}

EnhanceProfileOf(sc, rk, d, cl, sk, com) ==
  MkProfile(Str(SCHEMA_ID), Str(<<"2">>), Str(TS_created), Str(TS_updated), ValidIdentity,
            MkReputation(Num(sc), Num(rk), Str(<<"A">>), d[1], d[2], d[3], Undef),
            Arr(cl), Arr(<<>>), com, sk, Arr(<<>>),
            MkMetadata(Undef, Undef, Undef, Undef), NoEncryption("undefined", 0))

EnhanceInputs ==
  {EnhanceProfileOf(sc, rk, d, cl, sk, com) :
     sc \in SomeScores, rk \in SomeRanks, d \in SuppliedDerived, cl \in ContributionLists,
     sk \in SuppliedSkills, com \in SuppliedCommunities}
    \cup {[ValidRaw EXCEPT !.contributions = NotArr("undefined", 0)],
          [ValidRaw EXCEPT !.metadata = NoMetadata("undefined", 0)],
          [ValidRaw EXCEPT !.reputation = NoReputation("undefined", 0)],
          [ValidRaw EXCEPT !.skills = NotSkills("undefined", 0)]}

InitEnhance ==
  /\ pc = "input"
  /\ profile \in EnhanceInputs
  /\ result = NoResult
  /\ score = 0
  /\ data = <<>>
  /\ ipfs = <<>>
  /\ last = NoCall

\* enhanceProfile(p): p is changed in place; result keeps the input and the
\* record the first call returned
Enhance ==
  /\ pc = "input"
  /\ LET r == enhanceProfile(profile)
     IN  /\ profile' = r.profile
         /\ result' = [threw |-> r.threw, input |-> profile, profile |-> r.profile]
         /\ pc' = IF r.threw THEN "failed" ELSE "once"
  /\ UNCHANGED <<score, data, ipfs, last>>

\* enhanceProfile(enhanceProfile(p))
EnhanceAgain ==
  /\ pc = "once"
  /\ profile' = enhanceProfile(profile).profile
  /\ pc' = "twice"
  /\ UNCHANGED <<score, result, data, ipfs, last>>

NextEnhance ==
  Enhance \/ EnhanceAgain

SpecEnhance ==
  InitEnhance /\ [][NextEnhance]_vars

\* C2: idempotence of enhance: with score, rank, contributions and communities
\* unchanged between the calls, enhanceProfile(enhanceProfile(p)) has the same
\* level, xp, xp_to_next, skills and badges as enhanceProfile(p).
C2_EnhanceIdempotent ==
  pc = "twice" =>
    /\ profile.reputation.level = result.profile.reputation.level
    /\ profile.reputation.xp = result.profile.reputation.xp
    /\ profile.reputation.xp_to_next = result.profile.reputation.xp_to_next
    /\ profile.skills = result.profile.skills
    /\ profile.badges = result.profile.badges

\* Enhanced twice: a profile with contributions, skills it carried before and
\* no derived fields supplied, whose level, skills and badges were computed
C2_Witness ==
  /\ pc = "twice"
  /\ Len(result.input.contributions.items) = 2
  /\ result.input.skills.map["builder"] = Num(50)
  /\ result.input.reputation.level = Undef
  /\ result.input.reputation.score = Num(417)
  /\ profile.reputation.level = Num(4)
  /\ profile.skills.map["builder"] = Num(300)
  /\ Len(profile.badges.items) = 3

\* The scores (an absent score counts 0) of the contributions of items whose
\* type maps to skill k
RECURSIVE SumFor(_, _)
SumFor(items, k) ==
  IF items = <<>> THEN 0
  ELSE (IF SkillBucket(Head(items).type) = k /\ Head(items).score.t = "number"
        THEN Head(items).score.n ELSE 0)
       + SumFor(Tail(items), k)

\* The number a skills entry holds, an absent entry counting 0
SkillValue(v) ==
  IF v.t = "number" THEN v.n ELSE 0

\* C10: skill aggregation: after enhanceProfile(p), every skill equals the sum
\* of the scores of the contributions whose type maps to it, for every
\* contributions list, the empty list included (all skills 0), whatever
\* skills p carried before.
C10_SkillAggregation ==
  pc = "once" =>
    \A k \in SkillNames :
      SkillValue(profile.skills.map[k]) = SumFor(profile.contributions.items, k)

\* The name of a badge: the text after the emoji and the space it starts with
BadgeName(badge) ==
  SubSeq(badge, 3, Len(badge))

\* The scenario record: score 417, rank 8, one builder contribution "Buy Bot"
\* of 150, communities [A, B], no level / xp / xp_to_next
IsScenario(p) ==
  /\ p.reputation = MkReputation(Num(417), Num(8), Str(<<"A">>), Undef, Undef, Undef, Undef)
  /\ p.contributions.items =
       <<MkContribution(Str(CType.builder), Str(<<"B","u","y"," ","B","o","t">>), Num(150),
                        Undef, Undef)>>
  /\ p.communities = Arr(<<<<"A">>, <<"B">>>>)

\* C11: scenario: enhancing the profile with score 417, rank 8, one
\* contribution {builder, Buy Bot, 150} and communities [A, B] yields level 4,
\* xp 17, xp_to_next 83, skills.builder 150 and the badges Rising Star, Top 10,
\* Builder, exactly these and in this order.
C11_Scenario ==
  (pc = "once" /\ IsScenario(result.input)) =>
    /\ profile.reputation.level = Num(4)
    /\ profile.reputation.xp = Num(17)
    /\ profile.reputation.xp_to_next = Num(83)
    /\ profile.skills.map["builder"] = Num(150)
    /\ [i \in 1..Len(profile.badges.items) |-> BadgeName(profile.badges.items[i])]
         = <<(<<"R","i","s","i","n","g"," ","S","t","a","r">>), (<<"T","o","p"," ","1","0">>),
             (<<"B","u","i","l","d","e","r">>)>>

\* The scenario record has been enhanced
C11_Witness ==
  /\ pc = "once" /\ IsScenario(result.input)
  /\ profile.metadata.auto_enhanced = Bool(TRUE)
  /\ Len(profile.badges.items) = 3

\* C13: enhanceProfile never raises on valid input: for every profile that
\* passes validateProfile, the optional contributions, communities, skills,
\* badges or metadata absent included, enhanceProfile returns without throwing.
C13_EnhanceNeverThrows ==
  (pc \in {"once", "failed"} /\ validateProfile(result.input).valid) => ~result.threw

\* level, xp and xp_to_next as they follow from a score
DerivedFrom(sc) ==
  [level |-> Num(sc \div 100), xp |-> Num(sc % 100), xp_to_next |-> Num(100 - (sc % 100))]

\* C18: fill-if-absent: enhanceProfile recomputes each of reputation.level, xp
\* and xp_to_next from score only when the value it finds is falsy (absent,
\* null or 0); a non-zero value the caller supplied is left exactly as it was.
C18_FillIfAbsent ==
  pc = "once" =>
    \A f \in {"level", "xp", "xp_to_next"} :
      profile.reputation[f] =
        IF result.input.reputation[f] \in {Undef, Null, Num(0)}
        THEN DerivedFrom(result.input.reputation.score.n)[f]
        ELSE result.input.reputation[f]

\* A record with score 417, level null, xp 33 and xp_to_next 0 has been
\* enhanced: level and xp_to_next were computed, xp was kept
C18_Witness ==
  /\ pc = "once"
  /\ result.input.reputation.score = Num(417)
  /\ result.input.reputation.level = Null
  /\ result.input.reputation.xp = Num(33)
  /\ result.input.reputation.xp_to_next = Num(0)
  /\ profile.reputation.level = Num(4)
  /\ profile.reputation.xp = Num(33)
  /\ profile.reputation.xp_to_next = Num(83)

\* Record p with the fields enhanceProfile may write taken from q
WithDerivedOf(p, q) ==
  [p EXCEPT !.reputation.level = q.reputation.level, !.reputation.xp = q.reputation.xp,
            !.reputation.xp_to_next = q.reputation.xp_to_next, !.skills = q.skills,
            !.badges = q.badges, !.metadata.auto_enhanced = q.metadata.auto_enhanced]

\* C23: frame of enhance: enhanceProfile changes nothing except
\* reputation.level, xp, xp_to_next, skills, badges and metadata.auto_enhanced,
\* which is true afterwards; every other field of the record is as it was
\* before the call.
C23_EnhanceFrame ==
  /\ pc \in {"once", "failed"} => WithDerivedOf(profile, result.input) = result.input
  /\ pc = "once" => profile.metadata.auto_enhanced = Bool(TRUE)

\* A record with two contributions, skills of its own and supplied derived
\* fields has been enhanced, and the call has changed it
C23_Witness ==
  /\ pc = "once"
  /\ Len(result.input.contributions.items) = 2
  /\ result.input.skills.map["builder"] = Num(50)
  /\ result.input.reputation.level = Num(7)
  /\ result.input.metadata.auto_enhanced = Undef
  /\ profile.metadata.auto_enhanced = Bool(TRUE)
  /\ profile.skills # result.input.skills
  /\ profile.badges # result.input.badges

(***************************************************************************)
(* SpecCodec: profileFromTOON(profileToTOON(p)) for enhanced profiles      *)
(***************************************************************************)
MaxCodecContribs == 2

\* Contributions without and with a description and a timestamp
CodecContributions ==
  {MkContribution(Str(CType.builder), Str(<<"B","u","y"," ","B","o","t">>), Num(150), Undef, Undef),
   MkContribution(Str(CType.promoter), Str(<<"P","R">>), Num(30),
                  Str(<<"B","u","i","l","t"," ","i","t">>), Undef),
   MkContribution(Str(<<"d","e","s","i","g","n">>), Str(<<"L","o","g","o"," ","(","v","2",")">>), Num(40),
                  Undef, Str(TS_created)),
   MkContribution(Str(CType.validators), Str(<<"N","o","d","e">>), Num(7),
                  Str(<<"r","a","n"," ","a"," ","n","o","d","e">>), Str(TS_updated))}

CodecContributionLists ==
  UNION {[1..n -> CodecContributions] : n \in 0..MaxCodecContribs}

CodecIdentities ==
  {MkIdentity(Num(7), Str(<<"a","l">>), Undef, Undef, Undef),
   MkIdentity(Num(12345), Str(<<"a","l">>), Str(<<"A","l"," ","B">>), Str(<<"@","a","l">>),
              Str(<<"W","1">>))}

CodecReputations ==
  {MkReputation(Num(sc), Num(8), Str(<<"A","T","T","U","N","I","N","G">>), Undef, Undef, Undef, xnt) :
     sc \in {0, 417}, xnt \in {Undef, Num(5)}}

\* achievements and communities
CodecLists ==
  {<<Arr(<<>>), Arr(<<>>)>>,
   <<Arr(<<<<"F","i","r","s","t"," ","c","o","n","t","r","i","b","u","t","i","o","n">>>>), Arr(<<<<"X","1"," ","X","E","N">>, <<"B">>>>)>>}

CodecMetadata ==
  {MkMetadata(Null, Undef, Str(<<"c","l","i">>), Undef),
   MkMetadata(Str(<<"Q","m","2">>), Str(<<"Q","m","1">>), Str(<<"c","l","i">>), Bool(TRUE))}

CodecEncryption ==
  MkEncryption(Str(<<"A","E","S","-","2","5","6","-","G","C","M">>), Str(<<"w","a","l","l","e","t","_","s","i","g","n","a","t","u","r","e">>), Str(TS_created))

\* The inputs: records as a caller builds them, enhanced as ProfileManager.create
\* enhances them before encoding; and two records that do not pass validation
CodecInputs ==
  {enhanceProfile(MkProfile(Str(SCHEMA_ID), Str(<<"2">>), Str(TS_created), Str(TS_updated),
                            idn, rep, Arr(cl), l[1], l[2], SkillsObj(NoSkillsMap), Arr(<<>>),
                            md, CodecEncryption)).profile :
     idn \in CodecIdentities, rep \in CodecReputations, cl \in CodecContributionLists,
     l \in CodecLists, md \in CodecMetadata}
    \cup {[ValidRaw EXCEPT !.version = Str(<<"3">>)],
          [ValidRaw EXCEPT !.metadata = NoMetadata("undefined", 0)]}

InitCodec ==
  /\ pc = "input"
  /\ profile \in CodecInputs
  /\ result = NoResult
  /\ score = 0
  /\ data = <<>>
  /\ ipfs = <<>>
  /\ last = NoCall

\* text = profileToTOON(profile)
Encode ==
  /\ pc = "input"
  /\ LET r == profileToTOON(profile)
     IN  /\ result' = [threw |-> r.threw, text |-> r.text, decoded |-> EmptyDecoded]
         /\ pc' = IF r.threw THEN "failed" ELSE "encoded"
  /\ UNCHANGED <<score, profile, data, ipfs, last>>

\* decoded = profileFromTOON(text)
Decode ==
  /\ pc = "encoded"
  /\ result' = [result EXCEPT !.decoded = profileFromTOON(result.text)]
  /\ pc' = "decoded"
  /\ UNCHANGED <<score, profile, data, ipfs, last>>

NextCodec ==
  Encode \/ Decode

SpecCodec ==
  InitCodec /\ [][NextCodec]_vars

\* Two scalars are the same value; null and undefined both stand for absent
Same(a, b) ==
  IF a.t \in {"undefined", "null"} THEN b.t \in {"undefined", "null"} ELSE a = b

\* Contribution d reproduces c: type, name, score, and the description and
\* the timestamp when c had them
SameContribution(c, d) ==
  /\ Same(c.type, d.type) /\ Same(c.name, d.name) /\ Same(c.score, d.score)
  /\ Truthy(c.description) => Same(c.description, d.description)
  /\ Truthy(c.timestamp) => Same(c.timestamp, d.timestamp)

\* The parts of the round trip other than the contributions
RoundTripScalars(p, d) ==
  /\ Same(p.schema, d.schema) /\ Same(p.version, d.version)
  /\ Same(p.created_at, d.created_at) /\ Same(p.updated_at, d.updated_at)
  /\ \A f \in {"telegram_id", "username", "display_name", "handle", "wallet"} :
       Same(p.identity[f], d.identity[f])
  /\ \A f \in {"score", "rank", "tier", "level", "xp", "xp_to_next", "xnt_entitlement"} :
       Same(p.reputation[f], d.reputation[f])
  /\ p.achievements.items = d.achievements.items
  /\ p.communities.items = d.communities.items
  /\ \A k \in SkillNames : JsGt0(p.skills.map[k]) => Same(p.skills.map[k], d.skills.map[k])
  /\ p.badges.items = d.badges.items
  /\ \A f \in {"ipfs_cid", "previous_cid", "source", "auto_enhanced"} :
       Same(p.metadata[f], d.metadata[f])

\* Every contribution, in order
RoundTripContributions(p, d) ==
  /\ Len(d.contributions.items) = Len(p.contributions.items)
  /\ \A i \in 1..Len(p.contributions.items) :
       SameContribution(p.contributions.items[i], d.contributions.items[i])

\* C1: round trip: for every profile p that passes validateProfile,
\* profileFromTOON(profileToTOON(p)) reproduces schema, version, created_at,
\* updated_at, every identity and reputation field (xp_to_next rebuilt from
\* the xp line), every contribution in order (name, score, type, plus the
\* description and timestamp whenever p had them), achievements, communities,
\* the non-zero skills, badges, and metadata ipfs_cid / previous_cid / source /
\* auto_enhanced.
C1_RoundTrip ==
  (pc = "decoded" /\ validateProfile(profile).valid) =>
    /\ RoundTripScalars(profile, result.decoded)
    /\ RoundTripContributions(profile, result.decoded)

(***************************************************************************)
(* ProfileManager: sequences of create and update on one manager           *)
(***************************************************************************)
\* Uploads after which no further call is made
MaxBlobs == 3

\* What new Date().toISOString() returns during the calls
Clock ==
  {TS_updated}

ManagerContribution ==
  MkContribution(Str(CType.builder), Str(<<"B","o","t">>), Num(150),
                 Str(<<"B","u","i","l","t">>), Undef)

\* A record as a caller of the library builds it, without derived fields
PlainProfile(telegramId, wallet, sc) ==
  MkProfile(Str(SCHEMA_ID), Str(<<"2">>), Str(TS_created), Str(TS_created),
            MkIdentity(Num(telegramId), Str(<<"a","l">>), Undef, Undef, wallet),
            MkReputation(Num(sc), Num(8), Str(<<"A","T","T","U","N","I","N","G">>),
                         Undef, Undef, Undef, Undef),
            Arr(<<>>), Arr(<<>>), Arr(<<>>), SkillsObj(NoSkillsMap), Arr(<<>>),
            MkMetadata(Undef, Undef, Str(<<"a","p","i">>), Undef), CodecEncryption)

\* The record createProfile of the command line builds: level 0, xp 0,
\* xp_to_next 100, skills 0, wallet null when none is given
CliProfile(telegramId, sc, contribs) ==
  MkProfile(Str(SCHEMA_ID), Str(<<"2">>), Str(TS_created), Str(TS_created),
            MkIdentity(Num(telegramId), Str(<<"a","l">>), Str(<<"A","l">>),
                       Str(<<"@","a","l">>), Null),
            MkReputation(Num(sc), Num(8), Str(<<"A","T","T","U","N","I","N","G">>),
                         Num(0), Num(0), Num(100), Undef),
            Arr(contribs), Arr(<<>>), Arr(<<>>), SkillsObj([k \in SkillNames |-> Num(0)]),
            Arr(<<>>),
            MkMetadata(Null, Undef, Str(<<"c","y","b","e","r","d","y","n","e","-","c","l","i">>),
                       Bool(TRUE)),
            CodecEncryption)

\* The records handed to create: two identities, one of them also under a
\* wallet of its own, and a record that does not pass validation
ManagerProfiles ==
  {PlainProfile(7, Undef, 50), CliProfile(7, 150, <<ManagerContribution>>),
   PlainProfile(8, Str(<<"W","2">>), 50), CliProfile(8, 150, <<>>),
   [PlainProfile(7, Undef, 50) EXCEPT !.version = Num(2)]}

ManagerTelegramIds ==
  {7, 8}

\* The updates handed to update
ManagerUpdates ==
  {[NoUpdates EXCEPT !.reputation = [NoReputation("object", 0) EXCEPT !.score = Num(120)]],
   [NoUpdates EXCEPT !.contributions = Arr(<<ManagerContribution>>)],
   [NoUpdates EXCEPT !.contributions = [t |-> "object", n |-> 0,
                                        items |-> <<ManagerContribution>>],
                     !.addContribution = TRUE],
   [NoUpdates EXCEPT !.achievements = Arr(<<<<"F","i","r","s","t">>>>),
                     !.addAchievement = TRUE,
                     !.communities = Arr(<<<<"X","1">>>>)]}

\* A manager on an empty state file and an empty blob store
InitManager ==
  /\ pc = "idle"
  /\ data = [k \in {} |-> NoEntry]
  /\ ipfs = <<>>
  /\ last = [op |-> "none", success |-> FALSE, threw |-> FALSE, cid |-> <<>>,
             key |-> <<>>, existing |-> NoEntry, steps |-> <<>>, fault |-> "none"]
  /\ score = 0
  /\ profile = NoProfile("undefined")
  /\ result = NoResult

\* The call op has returned r: the stores are as the call left them
Returned(op, fault, r) ==
  /\ data' = r.store
  /\ ipfs' = r.blobs
  /\ last' = [op |-> op, success |-> r.success, threw |-> r.threw, cid |-> r.cid,
              key |-> r.key, existing |-> r.existing, steps |-> r.steps,
              fault |-> fault]

\* await manager.create(profileData)
Create ==
  /\ pc = "idle"
  /\ Len(ipfs) < MaxBlobs
  /\ \E profileData \in ManagerProfiles, now \in Clock, fault \in Faults :
       Returned("create", fault, create(data, ipfs, profileData, now, fault))
  /\ UNCHANGED <<pc, score, profile, result>>

\* await manager.update(telegramId, updates)
Update ==
  /\ pc = "idle"
  /\ Len(ipfs) < MaxBlobs
  /\ \E telegramId \in ManagerTelegramIds, updates \in ManagerUpdates, now \in Clock,
        fault \in Faults :
       Returned("update", fault, update(data, ipfs, Num(telegramId), updates, Null, now, fault))
  /\ UNCHANGED <<pc, score, profile, result>>

\* The wallet arguments of delete: none, or a wallet of its own
ManagerWallets ==
  {Null, Str(<<"W","2">>)}

\* manager.delete(telegramId, wallet)
Delete ==
  /\ pc = "idle"
  /\ \E telegramId \in ManagerTelegramIds, wallet \in ManagerWallets,
        fault \in {"none", "save"} :
       Returned("delete", fault, delete(data, ipfs, Num(telegramId), wallet, fault))
  /\ UNCHANGED <<pc, score, profile, result>>

NextManager ==
  Create \/ Update

SpecManager ==
  InitManager /\ [][NextManager]_vars

\* The manager under create and delete calls
NextDelete ==
  Create \/ Delete

SpecDelete ==
  InitManager /\ [][NextDelete]_vars

\* The profile stored under an address, as get reads it back
StoredAt(cid) ==
  profileFromTOON(decrypt(download(ipfs, cid).payload).text)

\* The version after that of a state entry
VersionAfter(entry) ==
  Str(NatToStr(DigitsToNat(ToText(entry.version), 0) + 1))

\* C3: in every profile that create or update has stored, after any sequence
\* of creates and updates, reputation.level = floor(score / 100),
\* reputation.xp = score mod 100 and reputation.xp_to_next = 100 - xp.
C3_StoredDerivedFields ==
  \A i \in 1..Len(ipfs) :
    LET rep == StoredAt(CidOf(i)).reputation
    IN  /\ rep.level = Num(rep.score.n \div 100)
        /\ rep.xp = Num(rep.score.n % 100)
        /\ rep.xp_to_next = Num(100 - rep.xp.n)

\* C4: version chain step: when create succeeds for an identity that already
\* has a state entry with a CID, the stored profile's metadata.previous_cid is
\* that entry's CID, its version is that entry's version plus 1, and the state
\* entry then holds the new CID and the new version.
C4_VersionChainStep ==
  (last.op \in {"create", "update"} /\ last.success
     /\ last.existing.present /\ Truthy(last.existing.cid)) =>
    /\ StoredAt(last.cid).metadata.previous_cid = last.existing.cid
    /\ StoredAt(last.cid).version = VersionAfter(last.existing)
    /\ data[last.key].cid = Str(last.cid)
    /\ data[last.key].version = VersionAfter(last.existing)

\* A create has succeeded on an identity whose chain had already stepped once
C4_Witness ==
  /\ last.op = "create" /\ last.success
  /\ last.existing.present /\ last.existing.version = Str(<<"3">>)
  /\ data[last.key].version = Str(<<"4">>)

\* C5: starting from a created profile, every update of an identity that has
\* a stored profile returns success with a new CID, a version one higher than
\* the previous one and previous_cid naming the previous CID.
C5_UpdatesAlwaysSucceed ==
  (last.op = "update" /\ last.existing.present /\ last.fault = "none") =>
    /\ last.success
    /\ last.cid # ToText(last.existing.cid)
    /\ StoredAt(last.cid).version = VersionAfter(last.existing)
    /\ StoredAt(last.cid).metadata.previous_cid = last.existing.cid

\* The positions of a step in the order a call ran its steps
StepsAt(step) ==
  {i \in 1..Len(last.steps) : last.steps[i] = step}

\* C15: on every record create or update processes, validate runs before
\* enhance and enhance before encode; no record is enhanced before it has
\* been validated.
C15_PipelineOrder ==
  /\ \A e \in StepsAt("enhance") : \E v \in StepsAt("validate") : v < e
  /\ \A c \in StepsAt("encode") : \E e \in StepsAt("enhance") : e < c

\* What manager.get(telegramId) hands to its caller in the current state
GetOf(telegramId) ==
  get(data, ipfs, Num(telegramId), Null)

\* C16: a profile decoded from stored bytes is handed to the callers of get
\* only after validateProfile has accepted it; a stored blob that decodes to
\* an invalid record is never returned as a profile.
C16_ReadValidated ==
  \A telegramId \in ManagerTelegramIds :
    GetOf(telegramId).found => validateProfile(GetOf(telegramId).profile).valid

\* C22: after a successful create or update, the profile get returns for that
\* identity has metadata.ipfs_cid equal to the CID recorded in the state entry
\* and metadata.previous_cid equal to the address of the preceding version,
\* absent for the first version.
C22_CurrentAddress ==
  last.success =>
    \A telegramId \in ManagerTelegramIds :
      StateKey(Num(telegramId), Str(WalletPubkey)) = last.key =>
        /\ GetOf(telegramId).found
        /\ GetOf(telegramId).profile.metadata.ipfs_cid = data[last.key].cid
        /\ IF last.existing.present
           THEN GetOf(telegramId).profile.metadata.previous_cid = last.existing.cid
           ELSE ~Truthy(GetOf(telegramId).profile.metadata.previous_cid)

\* C24: for every CID a successful create or update has returned, first or
\* later version of a chain, verify(cid) returns valid = true with the stored
\* profile, and verify does not throw.
C24_StoredBlobsVerify ==
  last.success =>
    /\ ~verify(ipfs, last.cid).threw
    /\ verify(ipfs, last.cid).valid
    /\ verify(ipfs, last.cid).profile = StoredAt(last.cid)

\* C25: after create(p) has returned success, get(p.identity.telegram_id)
\* without wallet argument returns the profile stored by that call, whether
\* p.identity.wallet is absent, the configured walletPubkey or another wallet.
C25_CreateThenGet ==
  (last.op = "create" /\ last.success) =>
    /\ GetOf(StoredAt(last.cid).identity.telegram_id.n).found
    /\ GetOf(StoredAt(last.cid).identity.telegram_id.n).profile = StoredAt(last.cid)

\* C26: whenever create returns success = false, the state store holds
\* exactly the entries it held before the call, and when the failure is a
\* validation failure nothing was encrypted or uploaded.
C26_FailedCreateKeepsState ==
  [][(last'.op = "create" /\ ~last'.success) =>
       /\ data' = data
       /\ last'.steps = <<"enhance", "validate">> => ipfs' = ipfs]_vars

\* The profile stored under an address once the step is taken
StoredNextAt(cid) ==
  profileFromTOON(decrypt(download(ipfs', cid).payload).text)

MaxBadgeScore == 810

BadgeInputs ==
  {EnhanceProfileOf(sc, rk, <<Undef, Undef, Undef>>, cl, SkillsObj(NoSkillsMap),
                    Arr(<<<<"A">>, <<"B">>>>)) :
     sc \in 0..MaxBadgeScore, rk \in SomeRanks,
     cl \in {<<>>, <<MkContribution(Str(CType.builder), Str(<<"B","o","t">>), Num(150),
                                   Undef, Undef)>>}}

InitBadges ==
  /\ pc = "input"
  /\ profile \in BadgeInputs
  /\ result = [threw |-> FALSE, before |-> <<>>]
  /\ score = 0
  /\ data = <<>>
  /\ ipfs = <<>>
  /\ last = NoCall

\* profile.badges = autoAssignBadges(profile)
AssignBadges ==
  /\ pc = "input"
  /\ profile' = [profile EXCEPT !.badges = Arr(autoAssignBadges(profile))]
  /\ pc' = "assigned"
  /\ UNCHANGED <<score, result, data, ipfs, last>>

\* The score goes up by one and the badges are assigned again; result keeps
\* the badges of the score before
RaiseScore ==
  /\ pc = "assigned"
  /\ LET raised == [profile EXCEPT !.reputation.score = Num(profile.reputation.score.n + 1)]
     IN  profile' = [raised EXCEPT !.badges = Arr(autoAssignBadges(raised))]
  /\ result' = [result EXCEPT !.before = profile.badges.items]
  /\ pc' = "raised"
  /\ UNCHANGED <<score, data, ipfs, last>>

NextBadges ==
  AssignBadges \/ RaiseScore

SpecBadges ==
  InitBadges /\ [][NextBadges]_vars

\* A badge of the score tier: Elite, Advanced or Rising Star
IsTierBadge(badge) ==
  BadgeName(badge) \in {<<"E","l","i","t","e">>, <<"A","d","v","a","n","c","e","d">>,
                        <<"R","i","s","i","n","g"," ","S","t","a","r">>}

IsOtherBadge(badge) ==
  ~IsTierBadge(badge)

\* The names of the tier badges the thresholds give a score
TierNames(sc) ==
  IF sc >= 800 THEN <<(<<"E","l","i","t","e">>)>>
  ELSE IF sc >= 500 THEN <<(<<"A","d","v","a","n","c","e","d">>)>>
  ELSE IF sc >= 100 THEN <<(<<"R","i","s","i","n","g"," ","S","t","a","r">>)>>
  ELSE <<>>

\* C12: badge thresholds: for every score >= 0 the badges hold at most one of
\* Elite / Advanced / Rising Star: none below 100, Rising Star for 100..499,
\* Advanced for 500..799, Elite from 800; and raising the score by one (99 to
\* 100, 499 to 500, 799 to 800 included) leaves the other badges unchanged.
C12_BadgeThresholds ==
  /\ pc \in {"assigned", "raised"} =>
       LET tier == SelectSeq(profile.badges.items, IsTierBadge)
       IN  [i \in 1..Len(tier) |-> BadgeName(tier[i])] = TierNames(profile.reputation.score.n)
  /\ pc = "raised" =>
       SelectSeq(profile.badges.items, IsOtherBadge) = SelectSeq(result.before, IsOtherBadge)

\* The score has gone from 499 to 500: Rising Star has been replaced with
\* Advanced
C12_Witness ==
  /\ pc = "raised"
  /\ profile.reputation.score = Num(500)
  /\ \E i \in 1..Len(result.before) : result.before[i] = Badge.rising
  /\ \E i \in 1..Len(profile.badges.items) : profile.badges.items[i] = Badge.advanced
  /\ \A i \in 1..Len(profile.badges.items) : profile.badges.items[i] # Badge.rising

(***************************************************************************)
(* SpecDecoder: the forward pass of profileFromTOON over any lines         *)
(***************************************************************************)
\* The number of lines of a text
MaxLines == 4

\* Lines of a text: well-formed ones, truncated and malformed ones, and
\* content that looks like another rule
DecoderLines ==
  {<<>>,
   <<"@","v","2">>,
   <<"#"," ","C","o","n","t","r","i","b","u","t","i","o","n","s">>,
   <<"#"," ","R","e","p","u","t","a","t","i","o","n">>,
   <<"[","b","u","i","l","d","e","r","]">>,
   <<"[","b","u","i","l","d","e","r">>,
   <<"-"," ","F","i","x"," ","(","5"," ","p","t","s",")">>,
   <<"-"," ","F","i","x">>,
   <<" "," ","B","u","i","l","t">>,
   <<" "," ","2","0","2","4","-","0","1","-","1","5">>,
   <<" "," ","@","h","o","m","e">>,
   <<"h","e","l","l","o">>,
   <<"x","p",":"," ","5">>,
   <<"v","e","r","s","i","o","n",":"," ","2">>,
   <<"#"," ","B","a","d","g","e","s">>,
   <<"-"," ","a",":","b"," ","(","1"," ","p","t","s",")">>}

InitDecoder ==
  /\ pc = "reading"
  /\ result = [st |-> DecodeStart, before |-> DecodeStart, line |-> <<>>, n |-> 0]
  /\ profile = NoProfile("undefined")
  /\ score = 0
  /\ data = <<>>
  /\ ipfs = <<>>
  /\ last = NoCall

\* One turn of the for loop: the next line of the text is read
ReadLine ==
  /\ pc = "reading"
  /\ result.n < MaxLines
  /\ \E line \in DecoderLines :
       result' = [result EXCEPT !.st = DecodeLine(result.st, line), !.before = result.st,
                                !.line = line, !.n = result.n + 1]
  /\ UNCHANGED <<pc, profile, score, data, ipfs, last>>

\* The text has no further line: return profile
ReturnProfile ==
  /\ pc = "reading"
  /\ profile' = result.st.profile
  /\ pc' = "returned"
  /\ UNCHANGED <<result, score, data, ipfs, last>>

NextDecoder ==
  ReadLine \/ ReturnProfile

SpecDecoder ==
  InitDecoder /\ [][NextDecoder]_vars

\* The line matches no rule of the grammar: it is not blank, no '@' line, no
\* '# ' header, no [type] tag, holds no ':', is no '- ' item, and is no
\* two-space line under an open contribution
NoRule(line, st) ==
  LET text == Trim(line)
  IN  /\ text # <<>>
      /\ ~StartsWith(text, <<"@">>)
      /\ ~StartsWith(text, <<"#", " ">>)
      /\ ~(StartsWith(text, <<"[">>) /\ EndsWith(text, <<"]">>))
      /\ IndexOf(text, ":") = 0
      /\ ~StartsWith(text, <<"-", " ">>)
      /\ ~(StartsWith(line, <<" ", " ">>) /\ st.currentContribution.open)

\* C14: profileFromTOON never raises: for every text the pass ends and
\* returns a record with all its sections, and a line that matches no grammar
\* rule leaves the record, the current section and the open contribution
\* unchanged.
C14_DecodeNeverRaises ==
  /\ (result.n > 0 /\ NoRule(result.line, result.before)) => result.st = result.before
  /\ pc = "returned" =>
       /\ profile.t = "object"
       /\ profile.identity.t = "object" /\ profile.reputation.t = "object"
       /\ profile.contributions.t = "array" /\ profile.achievements.t = "array"
       /\ profile.communities.t = "array" /\ profile.skills.t = "object"
       /\ profile.badges.t = "array" /\ profile.metadata.t = "object"
       /\ profile.encryption.t = "object"

\* A line that matches no rule has been read in a section, under an open
\* contribution
C14_Witness ==
  /\ result.n = 3
  /\ result.line = <<"h","e","l","l","o">>
  /\ result.before.currentSection = Str(Section.contributions)
  /\ result.before.currentContribution.open
  /\ result.st.currentContribution.open

\* C19: while decoding, a line beginning with two spaces that follows a
\* contribution's tag is attached to that contribution, as its timestamp when
\* the content starts with a YYYY-MM-DD pattern, otherwise as its description.
C19_DetailLines ==
  (/\ result.n > 0
   /\ StartsWith(result.line, <<" ", " ">>)
   /\ Trim(result.line) # <<>>
   /\ result.before.currentContribution.open) =>
    IF LooksLikeDate(Trim(result.line))
    THEN result.st.currentContribution.c.timestamp = Str(Trim(result.line))
    ELSE result.st.currentContribution.c.description = Str(Trim(result.line))

\* C20: a line beginning with '@' sets the schema id only while no section
\* header has been seen; once a '# ' section header has been consumed, no
\* later line changes profile.schema.
C20_SchemaHeaderScope ==
  (result.n > 0 /\ Truthy(result.before.currentSection)) =>
    result.st.profile.schema = result.before.profile.schema

\* The line is a [type] tag
IsTag(line) ==
  StartsWith(Trim(line), <<"[">>) /\ EndsWith(Trim(line), <<"]">>)

\* The name and the digits of a '- name (N pts)' line
ItemOf(line) ==
  IF StartsWith(Trim(line), <<"-", " ">>)
  THEN MatchItem(Substring(Trim(line), 2))
  ELSE [matched |-> FALSE, name |-> <<>>, digits |-> <<>>]

\* The line holds a ':' and the section is none or one of key: value lines
ReadAsKeyValue(st, line) ==
  /\ IndexOf(Trim(line), ":") # 0
  /\ ~Truthy(st.currentSection) \/ st.currentSection.s \in KeyValueSections

\* The section is one whose '- ' lines are strings of a list
InListSection(st) ==
  /\ Truthy(st.currentSection)
  /\ st.currentSection.s \in {Section.achievements, Section.communities, Section.badges}

\* The turn has closed the open contribution and appended it with the name
\* and the score of the line
Appended(before, st, line) ==
  /\ st.profile.contributions.items =
       Append(before.profile.contributions.items,
              MkContribution(before.currentContribution.c.type, Str(ItemOf(line).name),
                             Num(DigitsToNat(ItemOf(line).digits, 0)), Null, Null))
  /\ ~st.currentContribution.open

\* A contribution is open after the turn that was not open before it
Opened(before, st) ==
  st.currentContribution.open /\ ~before.currentContribution.open

\* C21 as stated: a contribution is opened only by a '[type]' line, and it is
\* appended, with that type, the name and the score N, and closed exactly when
\* a '- name (N pts)' line is read while it is open, in whatever section.
C21_EveryItemLine ==
  result.n > 0 =>
    /\ Opened(result.before, result.st) => IsTag(result.line)
    /\ IF result.before.currentContribution.open /\ ItemOf(result.line).matched
       THEN Appended(result.before, result.st, result.line)
       ELSE result.st.profile.contributions = result.before.profile.contributions

\* C21 amended: a contribution is opened only by a '[type]' line, and it is
\* appended, with that type, the name and the score N, and closed exactly when
\* a '- name (N pts)' line is read as a list item while it is open and the
\* section is not achievements, communities or badges; any other line, a
\* '- ' line that does not match included, appends nothing.
C21_OpenClose ==
  result.n > 0 =>
    /\ Opened(result.before, result.st) => IsTag(result.line)
    /\ IF /\ result.before.currentContribution.open /\ ItemOf(result.line).matched
          /\ ~InListSection(result.before)
          /\ ~ReadAsKeyValue(result.before, result.line)
       THEN Appended(result.before, result.st, result.line)
       ELSE result.st.profile.contributions = result.before.profile.contributions

\* Four lines were read, two tags each followed by a matching item line: the
\* fourth line has appended the second contribution and closed it
C21_Witness ==
  /\ result.n = 4
  /\ result.line = <<"-"," ","F","i","x"," ","(","5"," ","p","t","s",")">>
  /\ result.before.currentContribution.open
  /\ Len(result.before.profile.contributions.items) = 1
  /\ Len(result.st.profile.contributions.items) = 2
  /\ result.st.profile.contributions.items[2] =
       MkContribution(Str(CType.builder), Str(<<"F","i","x">>), Num(5), Null, Null)
  /\ ~result.st.currentContribution.open

(***************************************************************************)
(* SpecRace: update calls for one identity interleaving at their awaits    *)
(***************************************************************************)
\* The number of update calls in flight
MaxCallers == 2

Callers ==
  1..MaxCallers

\* The identity all the calls update
RaceTelegramId ==
  Num(7)

\* The locals of a call: the updates it was given, the profile get returned,
\* the chained record and its encoding, the address upload returned
NoLocals ==
  [updates |-> NoUpdates, existing |-> EmptyDecoded, p |-> EmptyDecoded, text |-> <<>>,
   cid |-> <<>>]

\* A manager that has created the first version of the profile; the calls
\* have been made and none has run yet. last lists the addresses in the order
\* in which they were recorded.
InitRace ==
  /\ data = create([k \in {} |-> NoEntry], <<>>, PlainProfile(7, Undef, 50), TS_created,
                   "none").store
  /\ ipfs = create([k \in {} |-> NoEntry], <<>>, PlainProfile(7, Undef, 50), TS_created,
                   "none").blobs
  /\ pc = [c \in Callers |-> "called"]
  /\ result = [c \in Callers |-> NoLocals]
  /\ last = <<>>
  /\ score = 0
  /\ profile = NoProfile("undefined")

\* update up to the return of get: the entry is looked up, the blob is
\* downloaded, decrypted and parsed
Fetch(c) ==
  /\ pc[c] = "called"
  /\ \E updates \in ManagerUpdates :
       IF get(data, ipfs, RaceTelegramId, Null).found
       THEN /\ result' = [result EXCEPT ![c].updates = updates,
                                        ![c].existing =
                                          get(data, ipfs, RaceTelegramId, Null).profile]
            /\ pc' = [pc EXCEPT ![c] = "fetched"]
       ELSE /\ pc' = [pc EXCEPT ![c] = "failed"]
            /\ UNCHANGED result
  /\ UNCHANGED <<data, ipfs, last, score, profile>>

\* create, entered with the enhanced record e, up to its first await:
\* validate, look up the entry, chain, encode
PrepareEnhanced(c, e) ==
  IF e.threw \/ ~validateProfile(e.profile).valid
  THEN /\ pc' = [pc EXCEPT ![c] = "failed"]
       /\ UNCHANGED result
  ELSE /\ pc' = [pc EXCEPT ![c] = "prepared"]
       /\ result' =
            [result EXCEPT
               ![c].p = ChainTo(e.profile, getProfile(data, RaceTelegramId, Str(WalletPubkey))),
               ![c].text =
                 profileToTOON(ChainTo(e.profile,
                                       getProfile(data, RaceTelegramId,
                                                  Str(WalletPubkey)))).text]

\* update from the return of get to the await of encrypt in create: merge,
\* enhance, and create up to the encoding
Prepare(c) ==
  /\ pc[c] = "fetched"
  /\ \E now \in Clock :
       PrepareEnhanced(c, enhanceProfile(
                            enhanceProfile(MergeUpdates(result[c].existing,
                                                        result[c].updates, now)).profile))
  /\ UNCHANGED <<data, ipfs, last, score, profile>>

\* create over the awaits of encrypt and upload: the store has the blob
Upload(c) ==
  /\ pc[c] = "prepared"
  /\ ipfs' = upload(ipfs, encrypt(result[c].text)).blobs
  /\ result' = [result EXCEPT ![c].cid = upload(ipfs, encrypt(result[c].text)).cid]
  /\ pc' = [pc EXCEPT ![c] = "uploaded"]
  /\ UNCHANGED <<data, last, score, profile>>

\* create after upload has returned: the entry is recorded
Record(c) ==
  /\ pc[c] = "uploaded"
  /\ \E now \in Clock :
       data' = setProfile(data, RaceTelegramId, EntryOf(result[c].cid, result[c].p),
                          Str(WalletPubkey), now)
  /\ last' = Append(last, result[c].cid)
  /\ pc' = [pc EXCEPT ![c] = "done"]
  /\ UNCHANGED <<ipfs, result, score, profile>>

NextRace ==
  \E c \in Callers : Fetch(c) \/ Prepare(c) \/ Upload(c) \/ Record(c)

SpecRace ==
  InitRace /\ [][NextRace]_vars

\* The position at which a call was recorded
RecordedAt(c) ==
  CHOOSE i \in 1..Len(last) : last[i] = result[c].cid

\* The fields the updates give are those of record p
Carries(p, updates) ==
  /\ TruthyC(updates.reputation) => p.reputation.score = updates.reputation.score
  /\ TruthyC(updates.communities) => p.communities.items = updates.communities.items
  /\ TruthyC(updates.achievements) => p.achievements.items = updates.achievements.items
  /\ TruthyC(updates.contributions) => Len(p.contributions.items) = 1

\* C27: when two update calls for one identity interleave at their awaits,
\* the two stored versions get distinct version numbers, the later-recorded
\* blob's previous_cid names the other call's blob, and the changes of both
\* calls are in the profile the state entry finally points to.
C27_InterleavedUpdates ==
  \A a, b \in Callers :
    (a # b /\ pc[a] = "done" /\ pc[b] = "done" /\ RecordedAt(a) < RecordedAt(b)) =>
      /\ result[a].p.version # result[b].p.version
      /\ result[b].p.metadata.previous_cid = Str(result[a].cid)
      /\ Carries(StoredAt(last[Len(last)]), result[a].updates)
      /\ Carries(StoredAt(last[Len(last)]), result[b].updates)

(***************************************************************************)
(* SpecRetry: the retry loop of IPFSStorage.add and IPFSStorage.cat        *)
(***************************************************************************)
\* The largest retry count a configuration gives
MaxRetries == 5

\* config.maxRetries as callers give it: absent, 0, or a count
RetryConfigs ==
  {Undef, Num(0)} \cup {Num(n) : n \in 1..MaxRetries}

\* A catch branch that gives up one attempt early
AfterFailureEarly(attempt, maxRetries) ==
  IF attempt >= maxRetries - 1 THEN "raised" ELSE "backoff"

\* The catch branch of an attempt: the error is raised when the attempt was
\* the last one, otherwise the loop waits and goes on
AfterFailure(attempt, maxRetries) ==
  IF attempt = maxRetries THEN "raised" ELSE "backoff"

\* new IPFSStorage(config) and a call of add or cat entering its loop with
\* attempt = 1 (score holds attempt); attempts and failures count the
\* requests made and those that failed
InitRetry ==
  /\ pc = "attempting"
  /\ score = 1
  /\ \E op \in {"add", "cat"}, configured \in RetryConfigs :
       result = [op |-> op, configured |-> configured,
                 maxRetries |-> OrElse(configured, Num(3)).n, attempts |-> 0,
                 failures |-> 0]
  /\ profile = NoProfile("undefined")
  /\ data = <<>>
  /\ ipfs = <<>>
  /\ last = NoCall

\* The request of this turn is answered and its answer is accepted: the call
\* returns it
AttemptSucceeds ==
  /\ pc = "attempting"
  /\ score <= result.maxRetries
  /\ result' = [result EXCEPT !.attempts = @ + 1]
  /\ pc' = "returned"
  /\ UNCHANGED <<score, profile, data, ipfs, last>>

\* The request of this turn fails (fetch rejects, the status is not ok, or
\* for add the answer does not parse)
AttemptFails ==
  /\ pc = "attempting"
  /\ score <= result.maxRetries
  /\ result' = [result EXCEPT !.attempts = @ + 1, !.failures = @ + 1]
  /\ pc' = AfterFailure(score, result.maxRetries)
  /\ UNCHANGED <<score, profile, data, ipfs, last>>

\* The backoff timer fires and the loop goes to its next turn
Backoff ==
  /\ pc = "backoff"
  /\ score' = score + 1
  /\ pc' = "attempting"
  /\ UNCHANGED <<result, profile, data, ipfs, last>>

NextRetry ==
  AttemptSucceeds \/ AttemptFails \/ Backoff

\* Every request is answered or fails, and every timer fires
SpecRetry ==
  InitRetry /\ [][NextRetry]_vars /\ WF_vars(NextRetry)

\* C29: add and cat make at most maxRetries attempts, return the result of
\* the first successful attempt without further attempts, raise an error only
\* after exactly maxRetries consecutive failed attempts, and every call ends
\* with a result or that error.
C29_BoundedRetry ==
  /\ [](/\ result.attempts <= result.maxRetries
        /\ pc = "returned" => result.failures = result.attempts - 1
        /\ pc = "raised" =>
             result.failures = result.maxRetries /\ result.attempts = result.maxRetries)
  /\ [][pc \notin {"returned", "raised"}]_vars
  /\ <>(pc \in {"returned", "raised"})

\* A call of add with the default of three attempts has raised its error
\* after three failed attempts
C29_Witness ==
  /\ pc = "raised"
  /\ result.op = "add" /\ result.configured = Undef
  /\ result.attempts = 3 /\ result.failures = 3

(***************************************************************************)
(* SpecCache: deriveKey and its module-level key cache                     *)
(***************************************************************************)
\* The last reading of the clock
MaxClock == 2

\* Wallet secret keys in base58: two that agree in their first 16 characters
\* and one that does not
CacheSecrets ==
  {<<"5","K","a","b","c","d","e","f","g","h","1","2","3","4","5","6","x">>,
   <<"5","K","a","b","c","d","e","f","g","h","1","2","3","4","5","6","y">>,
   <<"7","Q","a","b","c","d","e","f","g","h","1","2","3","4","5","6","x">>}

\* Derivation messages
CacheMessages ==
  {<<"V","1">>, <<"V","2">>}

\* cacheTtlMs as the callers pass it
CacheTtls ==
  {1, 2}

\* The first 32 bytes of the signature of the message under the secret key:
\* a value of its own for every secret key and message
SignedKey(secret, msg) ==
  [secret |-> secret, msg |-> msg]

\* `${walletSecretKeyBase58.slice(0, 16)}:${derivationMsg}`
CacheKey(secret, msg) ==
  SubSeq(secret, 1, IF Len(secret) < 16 THEN Len(secret) ELSE 16) \o <<":">> \o msg

\* deriveKey(walletSecretKeyBase58, derivationMsg, cacheTtlMs) at time now: the
\* cached key when there is one younger than cacheTtlMs, otherwise the key is
\* derived and cached
deriveKey(cache, now, secret, msg, cacheTtlMs) ==
  IF /\ CacheKey(secret, msg) \in DOMAIN cache
     /\ now - cache[CacheKey(secret, msg)].timestamp < cacheTtlMs
  THEN [key |-> cache[CacheKey(secret, msg)].key, cached |-> TRUE,
        age |-> now - cache[CacheKey(secret, msg)].timestamp, cache |-> cache]
  ELSE [key |-> SignedKey(secret, msg), cached |-> FALSE, age |-> 0,
        cache |-> [k \in DOMAIN cache \cup {CacheKey(secret, msg)} |->
                     IF k = CacheKey(secret, msg)
                     THEN [key |-> SignedKey(secret, msg), timestamp |-> now]
                     ELSE cache[k]]]

\* The module is loaded: the cache (data) is empty; score is Date.now()
InitCache ==
  /\ data = [k \in {} |-> [key |-> SignedKey(<<>>, <<>>), timestamp |-> 0]]
  /\ score = 0
  /\ last = [op |-> "none", secret |-> <<>>, msg |-> <<>>, cacheTtlMs |-> 0,
             key |-> SignedKey(<<>>, <<>>), cached |-> FALSE, age |-> 0]
  /\ pc = "idle"
  /\ profile = NoProfile("undefined")
  /\ result = NoResult
  /\ ipfs = <<>>

\* await deriveKey(secret, msg, cacheTtlMs), as encrypt and decrypt of a
\* CryptoBox call it
DeriveKey ==
  /\ \E secret \in CacheSecrets, msg \in CacheMessages, cacheTtlMs \in CacheTtls :
       /\ data' = deriveKey(data, score, secret, msg, cacheTtlMs).cache
       /\ last' = [op |-> "deriveKey", secret |-> secret, msg |-> msg,
                   cacheTtlMs |-> cacheTtlMs,
                   key |-> deriveKey(data, score, secret, msg, cacheTtlMs).key,
                   cached |-> deriveKey(data, score, secret, msg, cacheTtlMs).cached,
                   age |-> deriveKey(data, score, secret, msg, cacheTtlMs).age]
  /\ UNCHANGED <<score, pc, profile, result, ipfs>>

\* Time passes
Tick ==
  /\ score < MaxClock
  /\ score' = score + 1
  /\ UNCHANGED <<data, last, pc, profile, result, ipfs>>

NextCache ==
  DeriveKey \/ Tick

SpecCache ==
  InitCache /\ [][NextCache]_vars

\* C30: deriveKey(secret, msg) always returns the key derived from exactly
\* that secret key and that message, and a cached key as old as cacheTtlMs or
\* older is never returned.
C30_CacheIsolation ==
  last.op = "deriveKey" =>
    /\ last.key = SignedKey(last.secret, last.msg)
    /\ last.cached => last.age < last.cacheTtlMs

====
